---- MODULE Spec2Model ----
(***************************************************************************)
(* State-machine model of the host-side simulation engine (GameEngine) of  *)
(* worlds-end and of the host timers that drive it.                        *)
(*                                                                         *)
(* Numbers.  The engine computes with IEEE doubles.  The model uses fixed  *)
(* point integers: a length or a coordinate is counted in 1/Scale of a     *)
(* tile, a time in 1/Scale of a second.  Distances are compared by their   *)
(* squares, so no square root is taken where the code only compares.       *)
(***************************************************************************)
EXTENDS Integers, Sequences, FiniteSets, TLC

Scale == 100

\* ------------------------------------------------------------ constants
MAP_SIZE == 64
PASSIVE_GOLD_AMOUNT == 50
ZOMBIE_BOUNTY == 10
MINE_COST == 250
MINE_INCOME == 50
WALL_COST == 30
BUILD_RADIUS == 8
houseCost == 50

UNIT_TYPES ==
  [ SOLDIER |-> [cost |-> 20, hp |-> 50,  damage |-> 10, speed |-> 2 * Scale,
                 range |-> 150, radius |-> 30],
    TANK    |-> [cost |-> 60, hp |-> 300, damage |-> 25, speed |-> 1 * Scale,
                 range |-> 110, radius |-> 50] ]

\* seconds and tiles, counted in 1/Scale: 0.4 s, 0.05, 5, 0.75 and 2.5 tiles
PATH_RECALC_INTERVAL == 40
ATTACK_RANGE_BUFFER == 5
WALL_TARGET_MAX_DISTANCE == 500
WALL_BLOCK_TOLERANCE == 75
WALL_BREAK_CLOSE_DISTANCE == 250

BASE_POSITIONS ==
  << <<10 * Scale, 54 * Scale>>, <<20 * Scale, 44 * Scale>>,
     <<8 * Scale, 44 * Scale>>,  <<18 * Scale, 54 * Scale>>,
     <<12 * Scale, 48 * Scale>>, <<22 * Scale, 50 * Scale>>,
     <<6 * Scale, 50 * Scale>>,  <<16 * Scale, 42 * Scale>> >>

enemyBasePos == <<54 * Scale, 10 * Scale>>

PlayerIds == << "p1", "p2", "p3", "p4", "p5", "p6", "p7", "p8" >>

\* ids: 'enemy_base' is 0, `base_p${i}` is i, generateId() draws fresh ids
\* from FirstGeneratedId on (the 9 random base-36 digits never collide here)
EnemyBaseId == 0
FirstGeneratedId == 100
NoId == -1

\* ------------------------------------------------------------ geometry
Abs(v) == IF v < 0 THEN -v ELSE v

Max(a, b) == IF a >= b THEN a ELSE b

Min(a, b) == IF a <= b THEN a ELSE b

\* getDistance(a, b)^2
DistSq(ax, ay, bx, by) == (ax - bx) * (ax - bx) + (ay - by) * (ay - by)

\* Math.round on a fixed-point value: nearest whole tile, ties upwards
MathRound(v) == ((v + Scale \div 2) \div Scale) * Scale

\* a snap to the tile corner nearest to v, then half a tile on
snapPastNearestCorner(v) == MathRound(v) + Scale \div 2

snapToTileCoord(v) == MathRound(v - Scale \div 2) + Scale \div 2

\* 6*sin(0.15*x) and 6*cos(0.15*y) in 1/10000, for x, y = 0.0, 0.1, ... 63.9
SinTable ==
  << 0, 900, 1800, 2699, 3598, 4496, 5393, 6288, 7183, 8075, 8966, 9855, 10742, 11626, 12508, 13386,
     14262, 15135, 16004, 16869, 17731, 18589, 19443, 20292, 21136, 21976, 22811, 23641, 24466, 25285, 26098, 26905,
     27707, 28502, 29291, 30073, 30848, 31617, 32378, 33132, 33879, 34618, 35349, 36072, 36787, 37494, 38192, 38882,
     39563, 40235, 40898, 41552, 42197, 42832, 43457, 44073, 44679, 45274, 45860, 46435, 47000, 47554, 48097, 48630,
     49151, 49662, 50162, 50650, 51126, 51592, 52045, 52487, 52917, 53336, 53742, 54136, 54518, 54888, 55245, 55590,
     55922, 56242, 56549, 56844, 57125, 57394, 57650, 57893, 58123, 58340, 58543, 58734, 58911, 59075, 59226, 59363,
     59488, 59598, 59695, 59779, 59850, 59907, 59950, 59980, 59997, 59999, 59989, 59965, 59927, 59876, 59812, 59734,
     59643, 59538, 59420, 59288, 59143, 58985, 58813, 58629, 58431, 58220, 57996, 57758, 57508, 57245, 56969, 56680,
     56379, 56064, 55738, 55398, 55046, 54682, 54305, 53917, 53516, 53103, 52678, 52241, 51793, 51332, 50861, 50378,
     49883, 49377, 48860, 48333, 47794, 47244, 46684, 46114, 45533, 44942, 44340, 43729, 43108, 42477, 41837, 41187,
     40528, 39860, 39182, 38496, 37802, 37099, 36387, 35668, 34940, 34204, 33461, 32710, 31952, 31187, 30414, 29635,
     28849, 28057, 27258, 26454, 25643, 24826, 24004, 23177, 22344, 21506, 20664, 19816, 18965, 18109, 17249, 16385,
     15517, 14646, 13772, 12894, 12014, 11131, 10245, 9357, 8467, 7575, 6682, 5787, 4890, 3993, 3094, 2195,
     1295, 396, -504, -1404, -2304, -3203, -4101, -4999, -5895, -6790, -7683, -8575, -9465, -10352, -11238, -12120,
     -13001, -13878, -14752, -15622, -16489, -17353, -18212, -19068, -19919, -20766, -21608, -22445, -23277, -24104, -24925, -25741,
     -26551, -27355, -28153, -28945, -29730, -30508, -31280, -32044, -32801, -33551, -34294, -35028, -35755, -36474, -37184, -37886,
     -38580, -39265, -39941, -40608, -41266, -41915, -42554, -43184, -43804, -44414, -45014, -45604, -46183, -46753, -47312, -47860,
     -48397, -48924, -49439, -49943, -50437, -50918, -51389, -51847, -52295, -52730, -53153, -53565, -53964, -54352, -54727, -55090,
     -55440, -55778, -56103, -56416, -56716, -57003, -57278, -57539, -57788, -58023, -58246, -58455, -58652, -58835, -59005, -59161,
     -59305, -59435, -59551, -59654, -59744, -59820, -59883, -59933, -59969, -59991, -60000, -59995, -59977, -59946, -59900, -59842,
     -59770, -59684, -59586, -59473, -59348, -59208, -59056, -58890, -58712, -58519, -58314, -58096, -57864, -57620, -57362, -57092,
     -56809, -56513, -56204, -55883, -55549, -55202, -54844, -54472, -54089, -53693, -53286, -52866, -52434, -51991, -51536, -51069,
     -50591, -50102, -49601, -49089, -48566, -48032, -47487, -46932, -46366, -45789, -45203, -44606, -43999, -43382, -42755, -42119,
     -41474, -40819, -40154, -39481, -38799, -38108, -37409, -36701, -35985, -35261, -34529, -33789, -33041, -32286, -31524, -30755,
     -29979, -29196, -28406, -27610, -26808, -26000, -25186, -24366, -23541, -22711, -21875, -21035, -20189, -19340, -18485, -17627,
     -16765, -15899, -15029, -14156, -13280, -12401, -11519, -10635, -9748, -8859, -7968, -7075, -6180, -5284, -4387, -3489,
     -2590, -1691, -791, 109, 1009, 1909, 2808, 3707, 4604, 5501, 6397, 7291, 8183, 9074, 9963, 10849,
     11733, 12614, 13492, 14368, 15240, 16109, 16974, 17835, 18692, 19546, 20394, 21238, 22078, 22912, 23741, 24565,
     25383, 26196, 27003, 27803, 28598, 29386, 30167, 30941, 31709, 32470, 33223, 33968, 34706, 35437, 36159, 36873,
     37579, 38276, 38965, 39645, 40316, 40978, 41631, 42274, 42908, 43532, 44147, 44751, 45346, 45930, 46504, 47067,
     47620, 48162, 48694, 49214, 49723, 50221, 50708, 51183, 51647, 52099, 52540, 52969, 53385, 53790, 54183, 54563,
     54932, 55287, 55631, 55962, 56280, 56586, 56879, 57159, 57426, 57680, 57922, 58150, 58365, 58567, 58756, 58932,
     59094, 59243, 59379, 59502, 59611, 59706, 59789, 59857, 59913, 59954, 59983, 59998, 59999, 59987, 59961, 59922,
     59869, 59803, 59724, 59631, 59524, 59404, 59271, 59125, 58965, 58792, 58606, 58406, 58193, 57968, 57729, 57477,
     57212, 56935, 56645, 56341, 56026, 55697, 55356, 55003, 54637, 54259, 53869, 53466, 53052, 52626, 52187, 51738,
     51276, 50803, 50318, 49822, 49315, 48797, 48268, 47728, 47177, 46616, 46044, 45462, 44869, 44267, 43654, 43032,
     42400, 41759, 41108, 40447, 39778, 39100, 38413, 37717, 37013, 36301, 35580, 34851, 34115, 33371, 32619, 31860,
     31094, 30321, 29540, 28754, 27961, 27161, 26356, 25544, 24727, 23904, 23076, 22243, 21405, 20561, 19714, 18861,
     18005, 17144, 16280, 15412, 14540, 13666, 12788, 11907, 11024, 10138, 9250, 8359, 7467, 6573, 5678, 4782,
     3884, 2985, 2086, 1187, 287, -613, -1513, -2413, -3312, -4210, -5107, -6003, -6898, -7791, -8683, -9572 >>

CosTable ==
  << 60000, 59993, 59973, 59939, 59892, 59831, 59757, 59670, 59569, 59454, 59326, 59185, 59031, 58863, 58682, 58488,
     58280, 58060, 57826, 57580, 57320, 57048, 56763, 56465, 56154, 55830, 55495, 55146, 54785, 54412, 54027, 53629,
     53220, 52798, 52365, 51919, 51463, 50994, 50514, 50023, 49520, 49006, 48482, 47946, 47400, 46842, 46275, 45697,
     45108, 44510, 43901, 43283, 42655, 42017, 41370, 40713, 40048, 39373, 38690, 37997, 37297, 36587, 35870, 35145,
     34411, 33670, 32921, 32165, 31402, 30632, 29854, 29070, 28280, 27483, 26680, 25871, 25056, 24235, 23409, 22578,
     21741, 20900, 20054, 19204, 18349, 17490, 16627, 15761, 14891, 14017, 13140, 12261, 11378, 10494, 9606, 8717,
     7825, 6932, 6038, 5141, 4244, 3346, 2447, 1548, 648, -252, -1152, -2052, -2951, -3850, -4747, -5644,
     -6539, -7433, -8325, -9216, -10104, -10990, -11873, -12754, -13632, -14507, -15379, -16247, -17111, -17972, -18829, -19681,
     -20529, -21372, -22211, -23044, -23873, -24696, -25513, -26325, -27131, -27930, -28724, -29510, -30291, -31064, -31831, -32590,
     -33342, -34086, -34823, -35552, -36273, -36986, -37690, -38386, -39074, -39752, -40422, -41083, -41734, -42376, -43008, -43631,
     -44244, -44847, -45439, -46022, -46594, -47156, -47707, -48248, -48777, -49296, -49803, -50300, -50784, -51258, -51720, -52170,
     -52609, -53036, -53451, -53854, -54244, -54623, -54989, -55343, -55684, -56013, -56330, -56633, -56924, -57202, -57467, -57719,
     -57959, -58185, -58398, -58598, -58785, -58959, -59119, -59266, -59400, -59520, -59627, -59720, -59800, -59867, -59920, -59960,
     -59986, -59999, -59998, -59984, -59956, -59914, -59860, -59791, -59710, -59615, -59506, -59384, -59249, -59100, -58938, -58763,
     -58575, -58373, -58158, -57931, -57690, -57436, -57169, -56889, -56597, -56292, -55974, -55644, -55301, -54945, -54578, -54198,
     -53806, -53401, -52985, -52557, -52117, -51665, -51201, -50726, -50240, -49742, -49234, -48714, -48183, -47641, -47089, -46526,
     -45952, -45368, -44774, -44170, -43556, -42932, -42299, -41656, -41003, -40341, -39671, -38991, -38303, -37606, -36900, -36186,
     -35464, -34734, -33997, -33251, -32499, -31738, -30971, -30197, -29416, -28628, -27834, -27033, -26227, -25415, -24596, -23773,
     -22944, -22110, -21271, -20427, -19578, -18725, -17868, -17007, -16142, -15273, -14401, -13526, -12648, -11767, -10883, -9997,
     -9108, -8217, -7325, -6431, -5535, -4639, -3741, -2842, -1943, -1043, -143, 757, 1656, 2556, 3455, 4353,
     5250, 6146, 7040, 7933, 8825, 9714, 10601, 11485, 12367, 13247, 14123, 14996, 15866, 16732, 17594, 18453,
     19307, 20157, 21002, 21843, 22679, 23509, 24335, 25155, 25969, 26777, 27580, 28376, 29165, 29949, 30725, 31495,
     32257, 33012, 33760, 34500, 35233, 35957, 36674, 37382, 38082, 38773, 39455, 40129, 40793, 41449, 42095, 42731,
     43358, 43975, 44583, 45180, 45767, 46344, 46910, 47466, 48011, 48546, 49069, 49582, 50083, 50573, 51051, 51518,
     51974, 52418, 52850, 53270, 53678, 54074, 54458, 54830, 55189, 55536, 55870, 56192, 56501, 56798, 57081, 57352,
     57610, 57855, 58087, 58306, 58512, 58704, 58884, 59050, 59203, 59342, 59469, 59581, 59681, 59767, 59839, 59898,
     59944, 59976, 59995, 60000, 59992, 59970, 59934, 59885, 59823, 59747, 59658, 59555, 59439, 59310, 59167, 59011,
     58842, 58659, 58463, 58254, 58032, 57797, 57549, 57288, 57014, 56727, 56428, 56115, 55790, 55453, 55103, 54741,
     54366, 53979, 53580, 53169, 52746, 52311, 51865, 51406, 50937, 50455, 49963, 49459, 48944, 48417, 47880, 47333,
     46774, 46205, 45626, 45036, 44437, 43827, 43207, 42578, 41939, 41291, 40633, 39967, 39291, 38606, 37913, 37211,
     36501, 35783, 35056, 34322, 33580, 32830, 32073, 31309, 30538, 29760, 28975, 28184, 27386, 26582, 25772, 24957,
     24135, 23309, 22477, 21640, 20798, 19952, 19101, 18245, 17386, 16523, 15656, 14785, 13911, 13034, 12154, 11272,
     10386, 9499, 8609, 7717, 6824, 5929, 5033, 4136, 3237, 2338, 1439, 539, -361, -1261, -2161, -3060,
     -3958, -4856, -5752, -6647, -7541, -8433, -9323, -10211, -11097, -11980, -12861, -13738, -14613, -15484, -16352, -17216,
     -18076, -18932, -19784, -20631, -21474, -22312, -23145, -23973, -24795, -25612, -26423, -27228, -28027, -28819, -29605, -30385,
     -31157, -31923, -32681, -33432, -34176, -34912, -35640, -36360, -37072, -37775, -38470, -39156, -39834, -40502, -41162, -41812,
     -42453, -43084, -43705, -44317, -44919, -45510, -46092, -46663, -47223, -47773, -48312, -48840, -49358, -49864, -50359, -50842,
     -51315, -51775, -52224, -52661, -53087, -53500, -53902, -54291, -54668, -55033, -55385, -55725, -56052, -56367, -56669, -56958,
     -57235, -57498, -57749, -57987, -58211, -58423, -58621, -58807, -58979, -59137, -59283, -59415, -59534, -59639, -59731, -59809,
     -59874, -59926, -59964, -59988, -59999, -59997, -59981, -59951, -59909, -59852, -59782, -59699, -59602, -59492, -59368, -59232 >>

TrigScale == 10000

\* isValidTerrain(x, y); the noise is read at the coordinate cut to 1/10 tile
isValidTerrain(x, y) ==
  IF x < 0 \/ x >= MAP_SIZE * Scale \/ y < 0 \/ y >= MAP_SIZE * Scale THEN FALSE
  ELSE
    LET distFromDiagonal == Abs(x + y - MAP_SIZE * Scale)
        roominess == SinTable[(x \div 10) + 1] + CosTable[(y \div 10) + 1]
        near(bx, by) == DistSq(x, y, bx, by) < (8 * Scale) * (8 * Scale)
    IN  IF near(10 * Scale, 54 * Scale) \/ near(20 * Scale, 44 * Scale)
           \/ near(54 * Scale, 10 * Scale)
        THEN TRUE
        ELSE distFromDiagonal * (TrigScale \div Scale) < 14 * TrigScale + roominess

\* ------------------------------------------------------------ state
VARIABLES
  state,       \* this.state: players, entities, gameOver, winner, waveNumber
  playerCount, \* this.playerCount
  nextId,      \* the next id generateId() returns
  orders,      \* commands that took effect so far
  ticks,       \* update calls made so far
  incomes,     \* passive-income timer firings so far
  waves,       \* zombie-wave timer firings so far
  query,       \* the arguments of the call under study (findPath, isValidTerrain),
               \* << >> when none
  route,       \* what that call returned: a path (<< >> for null), << a Boolean >>
  guest,       \* engineRef.current.state of a guest, << >> in a session without one
  wire,        \* SYNC messages on their way from the host to the guest
  intents,     \* ACTION messages on their way from the guest to the host
  hostHad,     \* the values this.state of the host has had since the session began
  sinceStrike, \* by entity id, the time since its last attack (1 s and more count
               \* as 1 s); << >> where no record is kept
  sincePlan,   \* by id of unit or zombie, a record of its path plannings: time
               \* since the last one (0.4 s and more count as 0.4 s), reset
               \* (pathCooldown was set to 0 since then), gap (the time between
               \* the last two) and hurried (a reset fell between those two);
               \* << >> where no record is kept
  app          \* the host's App and NetworkManager: isPlaying, isInLobby,
               \* lobbyPlayers (ids, in order), connections (peers), peerToPlayer,
               \* nextPlayerId, and the timeouts that are set (callbacks: the
               \* connection callbacks due; infos: the guests that have yet to
               \* send playerInfo); << >> in a session that is played alone

vars == << state, playerCount, nextId, orders, ticks, incomes, waves, query, route,
          guest, wire, intents, hostHad, sinceStrike, sincePlan, app >>

\* the multiplayer side of the state
net == << guest, wire, intents, hostHad, app >>

\* a session that is played alone
NoNet == guest = << >> /\ wire = << >> /\ intents = << >> /\ hostHad = {} /\ app = << >>

\* an Entity; optional fields that are undefined hold NoId, 0, "" or << >>
Entity(id, type, x, y, hp, radius, ownerId, damage, range, speed, unitType) ==
  [ id |-> id, type |-> type, x |-> x, y |-> y, hp |-> hp, maxHp |-> hp,
    radius |-> radius, ownerId |-> ownerId,
    targetId |-> NoId, attackCooldown |-> 0, lastAttackerId |-> "",
    vx |-> 0, vy |-> 0, facing |-> 0,
    path |-> << >>, pathIndex |-> NoId, pathCooldown |-> 0,
    damage |-> damage, range |-> range, speed |-> speed, unitType |-> unitType ]

Building(id, type, x, y, hp, radius, ownerId) ==
  Entity(id, type, x, y, hp, radius, ownerId, 0, 0, 0, "")

\* a createInitialState whose enemy base is as strong as in a session of one
createInitialStateFlatEnemy(n) ==
  [ players |->
      [ p \in { PlayerIds[i] : i \in 1..n } |->
          LET i == CHOOSE k \in 1..n : PlayerIds[k] = p
          IN  [ gold |-> 100, currentPop |-> 0, maxPop |-> 5,
                basePosition |-> BASE_POSITIONS[i], defeated |-> FALSE ] ],
    entities |->
      [ i \in 1..n |-> Building(i, "BASE", BASE_POSITIONS[i][1], BASE_POSITIONS[i][2],
                                1000, 150, PlayerIds[i]) ]
      \o << Building(EnemyBaseId, "ENEMY_BASE", enemyBasePos[1], enemyBasePos[2],
                     3000 + 1 * 1000, 200, "enemy") >>,
    gameOver |-> FALSE,
    winner |-> "",
    waveNumber |-> 1 ]

createInitialState(n) ==
  [ players |->
      [ p \in { PlayerIds[i] : i \in 1..n } |->
          LET i == CHOOSE k \in 1..n : PlayerIds[k] = p
          IN  [ gold |-> 100, currentPop |-> 0, maxPop |-> 5,
                basePosition |-> BASE_POSITIONS[i], defeated |-> FALSE ] ],
    entities |->
      [ i \in 1..n |-> Building(i, "BASE", BASE_POSITIONS[i][1], BASE_POSITIONS[i][2],
                                1000, 150, PlayerIds[i]) ]
      \o << Building(EnemyBaseId, "ENEMY_BASE", enemyBasePos[1], enemyBasePos[2],
                     3000 + n * 1000, 200, "enemy") >>,
    gameOver |-> FALSE,
    winner |-> "",
    waveNumber |-> 1 ]

\* ------------------------------------------------------------ commands
\* Math.random() * 2 pi, then (cos, sin) * 2: a point of the ring of radius 2
RingOffsets == { <<-141, 141>> }

ZombieRingOffsets == { <<0, 2 * Scale>>, <<-2 * Scale, 0>> }

\* a spawnUnit that takes no gold
spawnUnitUncharged(st, playerId, unitTypeKey, off, id) ==
  IF playerId \notin DOMAIN st.players \/ st.players[playerId].defeated THEN st
  ELSE
    LET player == st.players[playerId]
        unitStats == UNIT_TYPES[unitTypeKey]
    IN  IF player.gold >= unitStats.cost /\ player.currentPop < player.maxPop
        THEN [ st EXCEPT
                 !.players[playerId].currentPop = @ + 1,
                 !.entities = Append(@,
                    Entity(id, "UNIT", player.basePosition[1] + off[1],
                           player.basePosition[2] + off[2], unitStats.hp,
                           unitStats.radius, playerId, unitStats.damage,
                           unitStats.range, unitStats.speed, unitTypeKey)) ]
        ELSE st

\* a spawnUnit that does not look at the population cap
spawnUnitPastCap(st, playerId, unitTypeKey, off, id) ==
  IF playerId \notin DOMAIN st.players \/ st.players[playerId].defeated THEN st
  ELSE
    LET player == st.players[playerId]
        unitStats == UNIT_TYPES[unitTypeKey]
    IN  IF player.gold >= unitStats.cost
        THEN [ st EXCEPT
                 !.players[playerId].gold = @ - unitStats.cost,
                 !.players[playerId].currentPop = @ + 1,
                 !.entities = Append(@,
                    Entity(id, "UNIT", player.basePosition[1] + off[1],
                           player.basePosition[2] + off[2], unitStats.hp,
                           unitStats.radius, playerId, unitStats.damage,
                           unitStats.range, unitStats.speed, unitTypeKey)) ]
        ELSE st

\* a spawnUnit that is refused once the game is over
spawnUnitUnlessOver(st, playerId, unitTypeKey, off, id) ==
  IF st.gameOver THEN st
  ELSE IF playerId \notin DOMAIN st.players \/ st.players[playerId].defeated THEN st
  ELSE
    LET player == st.players[playerId]
        unitStats == UNIT_TYPES[unitTypeKey]
    IN  IF player.gold >= unitStats.cost /\ player.currentPop < player.maxPop
        THEN [ st EXCEPT
                 !.players[playerId].gold = @ - unitStats.cost,
                 !.players[playerId].currentPop = @ + 1,
                 !.entities = Append(@,
                    Entity(id, "UNIT", player.basePosition[1] + off[1],
                           player.basePosition[2] + off[2], unitStats.hp,
                           unitStats.radius, playerId, unitStats.damage,
                           unitStats.range, unitStats.speed, unitTypeKey)) ]
        ELSE st

spawnUnit(st, playerId, unitTypeKey, off, id) ==
  IF playerId \notin DOMAIN st.players \/ st.players[playerId].defeated THEN st
  ELSE
    LET player == st.players[playerId]
        unitStats == UNIT_TYPES[unitTypeKey]
    IN  IF player.gold >= unitStats.cost /\ player.currentPop < player.maxPop
        THEN [ st EXCEPT
                 !.players[playerId].gold = @ - unitStats.cost,
                 !.players[playerId].currentPop = @ + 1,
                 !.entities = Append(@,
                    Entity(id, "UNIT", player.basePosition[1] + off[1],
                           player.basePosition[2] + off[2], unitStats.hp,
                           unitStats.radius, playerId, unitStats.damage,
                           unitStats.range, unitStats.speed, unitTypeKey)) ]
        ELSE st

\* an occupancy test that finds every tile free
occupiedNowhere(st, sx, sy) ==
  \E i \in 1..Len(st.entities) :
     Abs(st.entities[i].x - sx) < 0 /\ Abs(st.entities[i].y - sy) < 0

occupied(st, sx, sy) ==
  \E i \in 1..Len(st.entities) :
     Abs(st.entities[i].x - sx) < 80 /\ Abs(st.entities[i].y - sy) < 80

withinBuildRadius(player, sx, sy) ==
  DistSq(sx, sy, player.basePosition[1], player.basePosition[2])
    <= (BUILD_RADIUS * Scale) * (BUILD_RADIUS * Scale)

\* a buildHouse that does not look at the defeated flag
buildHouseByDefeated(st, playerId, x, y, id) ==
  IF playerId \notin DOMAIN st.players THEN st
  ELSE
    LET player == st.players[playerId]
        sx == snapToTileCoord(x)
        sy == snapToTileCoord(y)
    IN  IF player.gold >= houseCost /\ withinBuildRadius(player, sx, sy)
           /\ ~occupied(st, sx, sy) /\ isValidTerrain(sx, sy)
        THEN [ st EXCEPT
                 !.players[playerId].gold = @ - houseCost,
                 !.players[playerId].maxPop = @ + 5,
                 !.entities = Append(@, Building(id, "HOUSE", sx, sy, 100, 100, playerId)) ]
        ELSE st

buildHouse(st, playerId, x, y, id) ==
  IF playerId \notin DOMAIN st.players \/ st.players[playerId].defeated THEN st
  ELSE
    LET player == st.players[playerId]
        sx == snapToTileCoord(x)
        sy == snapToTileCoord(y)
    IN  IF player.gold >= houseCost /\ withinBuildRadius(player, sx, sy)
           /\ ~occupied(st, sx, sy) /\ isValidTerrain(sx, sy)
        THEN [ st EXCEPT
                 !.players[playerId].gold = @ - houseCost,
                 !.players[playerId].maxPop = @ + 5,
                 !.entities = Append(@, Building(id, "HOUSE", sx, sy, 100, 100, playerId)) ]
        ELSE st

\* a buildMine that does not look for an entity on the tile
buildMineOnOccupied(st, playerId, x, y, id) ==
  IF playerId \notin DOMAIN st.players \/ st.players[playerId].defeated THEN st
  ELSE
    LET player == st.players[playerId]
        sx == snapToTileCoord(x)
        sy == snapToTileCoord(y)
    IN  IF player.gold >= MINE_COST /\ withinBuildRadius(player, sx, sy)
           /\ isValidTerrain(sx, sy)
        THEN [ st EXCEPT
                 !.players[playerId].gold = @ - MINE_COST,
                 !.entities = Append(@, Building(id, "MINE", sx, sy, 150, 100, playerId)) ]
        ELSE st

\* a buildMine that does not look at the player's gold
buildMineOnCredit(st, playerId, x, y, id) ==
  IF playerId \notin DOMAIN st.players \/ st.players[playerId].defeated THEN st
  ELSE
    LET player == st.players[playerId]
        sx == snapToTileCoord(x)
        sy == snapToTileCoord(y)
    IN  IF withinBuildRadius(player, sx, sy)
           /\ ~occupied(st, sx, sy) /\ isValidTerrain(sx, sy)
        THEN [ st EXCEPT
                 !.players[playerId].gold = @ - MINE_COST,
                 !.entities = Append(@, Building(id, "MINE", sx, sy, 150, 100, playerId)) ]
        ELSE st

buildMine(st, playerId, x, y, id) ==
  IF playerId \notin DOMAIN st.players \/ st.players[playerId].defeated THEN st
  ELSE
    LET player == st.players[playerId]
        sx == snapToTileCoord(x)
        sy == snapToTileCoord(y)
    IN  IF player.gold >= MINE_COST /\ withinBuildRadius(player, sx, sy)
           /\ ~occupied(st, sx, sy) /\ isValidTerrain(sx, sy)
        THEN [ st EXCEPT
                 !.players[playerId].gold = @ - MINE_COST,
                 !.entities = Append(@, Building(id, "MINE", sx, sy, 150, 100, playerId)) ]
        ELSE st

\* a buildWall held to the build radius as houses and mines are
buildWallNearBase(st, playerId, x, y, id) ==
  IF playerId \notin DOMAIN st.players \/ st.players[playerId].defeated THEN st
  ELSE
    LET player == st.players[playerId]
        sx == snapToTileCoord(x)
        sy == snapToTileCoord(y)
    IN  IF player.gold >= WALL_COST /\ withinBuildRadius(player, sx, sy)
           /\ ~occupied(st, sx, sy) /\ isValidTerrain(sx, sy)
        THEN [ st EXCEPT
                 !.players[playerId].gold = @ - WALL_COST,
                 !.entities = Append(@, Building(id, "WALL", sx, sy, 200, 80, playerId)) ]
        ELSE st

buildWall(st, playerId, x, y, id) ==
  IF playerId \notin DOMAIN st.players \/ st.players[playerId].defeated THEN st
  ELSE
    LET player == st.players[playerId]
        sx == snapToTileCoord(x)
        sy == snapToTileCoord(y)
    IN  IF player.gold >= WALL_COST /\ ~occupied(st, sx, sy) /\ isValidTerrain(sx, sy)
        THEN [ st EXCEPT
                 !.players[playerId].gold = @ - WALL_COST,
                 !.entities = Append(@, Building(id, "WALL", sx, sy, 200, 80, playerId)) ]
        ELSE st

\* ------------------------------------------------------------ timers
\* the passive-gold interval callback of GameCanvas (host only)
passiveIncome(st) ==
  IF st.gameOver THEN st
  ELSE [ st EXCEPT !.players =
           [ p \in DOMAIN st.players |->
               LET mineCount == Cardinality({ i \in 1..Len(st.entities) :
                                   st.entities[i].type = "MINE"
                                   /\ st.entities[i].ownerId = p })
               IN  [ st.players[p] EXCEPT
                       !.gold = @ + PASSIVE_GOLD_AMOUNT + mineCount * MINE_INCOME ] ] ]

hasEnemyBase(st) ==
  \E i \in 1..Len(st.entities) : st.entities[i].type = "ENEMY_BASE"

enemyBaseOf(st) ==
  st.entities[CHOOSE i \in 1..Len(st.entities) :
                 /\ st.entities[i].type = "ENEMY_BASE"
                 /\ \A j \in 1..(i - 1) : st.entities[j].type # "ENEMY_BASE"]

\* 1 + (playerCount - 1) * 0.3, in tenths
playerMultiplier(n) == 10 + (n - 1) * 3

\* a spawnZombie whose maxHp leaves out the player multiplier
spawnZombieUnscaledMaxHp(st, n, off, id) ==
  IF ~hasEnemyBase(st) THEN st
  ELSE
    LET enemyBase == enemyBaseOf(st)
        hp == ((30 + st.waveNumber * 5) * playerMultiplier(n)) \div 10
        damage == ((5 + st.waveNumber * 1) * playerMultiplier(n)) \div 10
    IN  [ st EXCEPT !.entities = Append(@,
            [ Entity(id, "ZOMBIE", enemyBase.x + off[1], enemyBase.y + off[2], hp, 40,
                     "enemy", damage, 80, 80, "")
                EXCEPT !.maxHp = 30 + st.waveNumber * 5 ]) ]

spawnZombie(st, n, off, id) ==
  IF ~hasEnemyBase(st) THEN st
  ELSE
    LET enemyBase == enemyBaseOf(st)
        hp == ((30 + st.waveNumber * 5) * playerMultiplier(n)) \div 10
        damage == ((5 + st.waveNumber * 1) * playerMultiplier(n)) \div 10
    IN  [ st EXCEPT !.entities = Append(@,
            Entity(id, "ZOMBIE", enemyBase.x + off[1], enemyBase.y + off[2], hp, 40,
                   "enemy", damage, 80, 80, "")) ]

\* Math.ceil(playerCount * 1.5)
zombiesToSpawn(n) == (n * 3 + 1) \div 2

RECURSIVE spawnZombies(_, _, _, _, _)
spawnZombies(st, n, offs, id, i) ==
  IF i > Len(offs) THEN st
  ELSE spawnZombies(spawnZombie(st, n, offs[i], id + i - 1), n, offs, id, i + 1)

\* offs: the ring point Math.random() gives each zombie of the wave
spawnZombieWave(st, n, offs, id) == spawnZombies(st, n, offs, id, 1)

\* ------------------------------------------------------------ pathfinding
\* the largest multiple of Scale whose square is at most n
ISqrtCoarse(n) ==
  Scale * (CHOOSE c \in 0..(2 * MAP_SIZE) :
             (Scale * c) * (Scale * c) <= n /\ n < (Scale * (c + 1)) * (Scale * (c + 1)))

\* Math.sqrt, rounded down to the fixed-point grid
ISqrt(n) ==
  CHOOSE r \in ISqrtCoarse(n)..(ISqrtCoarse(n) + Scale - 1) :
    r * r <= n /\ n < (r + 1) * (r + 1)

BlockingTypes == { "WALL", "HOUSE", "MINE", "BASE", "ENEMY_BASE" }

isPositionBlocked(es, x, y, ignoreId, ignoreTypes) ==
  \E k \in 1..Len(es) :
     /\ es[k].id # ignoreId
     /\ es[k].type \notin ignoreTypes
     /\ es[k].hp > 0
     /\ es[k].type \in BlockingTypes
     /\ LET blockerRadius == IF es[k].radius = 0 THEN 50 ELSE es[k].radius
        IN  DistSq(x, y, es[k].x, es[k].y) < (blockerRadius + 50) * (blockerRadius + 50)

\* the tiles <<tx, ty>> that hold a live blocking entity
buildBlockedTiles(es, ignoreTypes) ==
  { << es[k].x \div Scale, es[k].y \div Scale >> :
      k \in { j \in 1..Len(es) :
                /\ es[j].type \notin ignoreTypes
                /\ es[j].hp > 0
                /\ es[j].type \in BlockingTypes
                /\ es[j].x >= 0 /\ es[j].x < MAP_SIZE * Scale
                /\ es[j].y >= 0 /\ es[j].y < MAP_SIZE * Scale } }

neighbors ==
  << <<1, 0>>, <<-1, 0>>, <<0, 1>>, <<0, -1>>,
     <<1, 1>>, <<1, -1>>, <<-1, 1>>, <<-1, -1>> >>

\* Manhattan distance; step costs and scores are counted in tenths
heuristic(a, b) == 10 * (Abs(a[1] - b[1]) + Abs(a[2] - b[2]))

stepCost(n) == IF n[1] = 0 \/ n[2] = 0 THEN 10 ELSE 14

\* the lowest of the f values fs
lowestF(fs) == CHOOSE m \in fs : \A v \in fs : m <= v

\* index of the first entry of openSet whose f is best
firstWithF(openSet, best) ==
  CHOOSE i \in 1..Len(openSet) :
    openSet[i].f = best /\ \A j \in 1..(i - 1) : openSet[j].f # best

\* index of the first entry of openSet with the lowest f
popLowest(openSet) ==
  firstWithF(openSet, lowestF({ openSet[j].f : j \in 1..Len(openSet) }))

RemoveAt(s, i) == SubSeq(s, 1, i - 1) \o SubSeq(s, i + 1, Len(s))

RECURSIVE stepsBack(_, _, _, _)
\* the while-loop of the reconstruction, run for at most n passes (halving keeps
\* the evaluation shallow): trail holds the tiles from the goal back, the last
\* of them is curK; it ends at start or at a tile that cameFrom does not hold
stepsBack(cameFrom, start, trail, n) ==
  IF trail[Len(trail)] = start \/ trail[Len(trail)] \notin DOMAIN cameFrom \/ n = 0
  THEN trail
  ELSE IF n = 1 THEN Append(trail, cameFrom[trail[Len(trail)]])
  ELSE stepsBack(cameFrom, start, stepsBack(cameFrom, start, trail, n \div 2),
                 n - n \div 2)

\* the trail turned round, with start put first when the trail did not reach it
startFirst(trail, start) ==
  LET turned == [ j \in 1..Len(trail) |-> trail[Len(trail) - j + 1] ]
  IN  IF trail[Len(trail)] = start THEN turned ELSE << start >> \o turned

\* the tiles from start to cur, following cameFrom backwards
reconstructPath(cameFrom, start, cur) ==
  startFirst(stepsBack(cameFrom, start, << cur >>, Cardinality(DOMAIN cameFrom) + 1),
             start)

tileCenter(t) == << t[1] * Scale + Scale \div 2, t[2] * Scale + Scale \div 2 >>

\* a test of the neighbour that does not look at the blocked tiles
passableThroughBlocked(nb, ctx) ==
  /\ nb[1] >= 0 /\ nb[1] < MAP_SIZE /\ nb[2] >= 0 /\ nb[2] < MAP_SIZE
  /\ isValidTerrain(nb[1] * Scale, nb[2] * Scale)

\* a test of the neighbour that does not ask isValidTerrain
passableOffTerrain(nb, ctx) ==
  /\ nb[1] >= 0 /\ nb[1] < MAP_SIZE /\ nb[2] >= 0 /\ nb[2] < MAP_SIZE
  /\ (nb = ctx.goal \/ nb \notin ctx.blockedTiles)

\* a test of the neighbour that holds the goal tile to the blocked tiles as well
passableGoalBlocked(nb, ctx) ==
  /\ nb[1] >= 0 /\ nb[1] < MAP_SIZE /\ nb[2] >= 0 /\ nb[2] < MAP_SIZE
  /\ isValidTerrain(nb[1] * Scale, nb[2] * Scale)
  /\ nb \notin ctx.blockedTiles

\* the three continue tests of the neighbour loop: in bounds, valid terrain,
\* and not blocked unless it is the goal tile
passable(nb, ctx) ==
  /\ nb[1] >= 0 /\ nb[1] < MAP_SIZE /\ nb[2] >= 0 /\ nb[2] < MAP_SIZE
  /\ isValidTerrain(nb[1] * Scale, nb[2] * Scale)
  /\ (nb = ctx.goal \/ nb \notin ctx.blockedTiles)

\* the body of the for-loop for the neighbour nb of current, reached by step n;
\* s = [openSet, cameFrom, gScore, found]
relaxNeighbor(s, current, ctx, n, nb) ==
  IF passable(nb, ctx)
     /\ (nb \notin DOMAIN s.gScore \/ s.gScore[current] + stepCost(n) < s.gScore[nb])
  THEN [ openSet |-> IF \E j \in 1..Len(s.openSet) : s.openSet[j].node = nb
                     THEN s.openSet
                     ELSE Append(s.openSet,
                                 [node |-> nb,
                                  f |-> s.gScore[current] + stepCost(n)
                                        + heuristic(nb, ctx.goal)]),
         cameFrom |-> (nb :> current) @@ s.cameFrom,
         gScore |-> (nb :> s.gScore[current] + stepCost(n)) @@ s.gScore,
         found |-> s.found ]
  ELSE s

RECURSIVE relaxNeighbors(_, _, _, _, _)
\* the for-loop over the neighbours lo..hi of current, in order (halving keeps
\* the evaluation shallow)
relaxNeighbors(s, current, ctx, lo, hi) ==
  IF lo > hi \/ s.found THEN s
  ELSE IF lo = hi
  THEN relaxNeighbor(s, current, ctx, neighbors[lo],
                     << current[1] + neighbors[lo][1], current[2] + neighbors[lo][2] >>)
  ELSE relaxNeighbors(relaxNeighbors(s, current, ctx, lo, (lo + hi) \div 2),
                      current, ctx, (lo + hi) \div 2 + 1, hi)

\* the body of the while-loop once entry idx was chosen: remove it, stop at the
\* goal, otherwise relax the neighbours; found holds the popped goal node
expand(s, ctx, idx) ==
  LET current == s.openSet[idx].node
      rest == [ s EXCEPT !.openSet = RemoveAt(s.openSet, idx) ]
  IN  IF current = ctx.goal
      THEN [ rest EXCEPT !.found = TRUE ]
      ELSE relaxNeighbors(rest, current, ctx, 1, Len(neighbors))

\* one pass of the while-loop of findPath
searchStep(s, ctx) == expand(s, ctx, popLowest(s.openSet))

\* an upper bound on the passes of the while-loop (every pass pops one entry and
\* a tile re-enters the open set only when its gScore strictly improves)
searchBudget == 8 * MAP_SIZE * MAP_SIZE

\* the test of the while-loop fails: the goal was popped, or openSet is empty
searchOver(s) == s.found \/ s.openSet = << >>

RECURSIVE searchLoop(_, _, _)
RECURSIVE searchOn(_, _, _)
\* the while-loop of findPath from s, run for at most n passes
searchOn(s, ctx, n) == IF searchOver(s) THEN s ELSE searchLoop(s, ctx, n)

\* up to n passes of the while-loop from an s in which it goes on (halving
\* keeps the evaluation shallow)
searchLoop(s, ctx, n) ==
  IF n <= 1 THEN searchStep(s, ctx)
  ELSE searchOn(searchLoop(s, ctx, n \div 2), ctx, n - n \div 2)

\* the while-loop of findPath, run to its end: the state it ends in.  The
\* passes come in rounds of growing length, so that a short search is shallow
search(start, goal, blockedTiles) ==
  LET s0 == [ openSet |-> << [node |-> start, f |-> heuristic(start, goal)] >>,
              cameFrom |-> << >>,
              gScore |-> (start :> 0),
              found |-> FALSE ]
      ctx == [ start |-> start, goal |-> goal, blockedTiles |-> blockedTiles ]
  IN  searchOn(searchOn(searchOn(searchOn(s0, ctx, 16), ctx, 128), ctx, 1024),
               ctx, searchBudget)

\* the waypoints of a tile path: the centre of every tile
waypointsOf(tiles) == [ j \in 1..Len(tiles) |-> tileCenter(tiles[j]) ]

\* what findPath returns once its while-loop ended in s; << >> is null
pathFrom(s, start, goal) ==
  IF ~s.found THEN << >>
  ELSE waypointsOf(reconstructPath(s.cameFrom, start, goal))

\* findPath with a supplied blockedTiles set, as update calls it
findPath(startX, startY, goalX, goalY, blockedTiles) ==
  pathFrom(search(<< startX \div Scale, startY \div Scale >>,
                  << goalX \div Scale, goalY \div Scale >>, blockedTiles),
           << startX \div Scale, startY \div Scale >>,
           << goalX \div Scale, goalY \div Scale >>)

RECURSIVE pathSteps(_, _, _)
\* getPathLength: the sum of the distances to the waypoints lo..hi from the one
\* before each, in 1/Scale of a tile (halving keeps the evaluation shallow)
pathSteps(path, lo, hi) ==
  IF lo > hi THEN 0
  ELSE IF lo = hi
  THEN ISqrt(DistSq(path[lo - 1][1], path[lo - 1][2], path[lo][1], path[lo][2]))
  ELSE pathSteps(path, lo, (lo + hi) \div 2) + pathSteps(path, (lo + hi) \div 2 + 1, hi)

getPathLength(path) == pathSteps(path, 2, Len(path))

\* ------------------------------------------------------------ targeting
\* a findClosestTarget that does not look at the hp of the entities
findClosestTargetDeadOrAlive(es, i, targetOwners, excludeTypes) ==
  LET cands == { k \in 1..Len(es) : /\ es[k].ownerId \in targetOwners
                                    /\ es[k].type \notin excludeTypes }
      d(k) == DistSq(es[i].x, es[i].y, es[k].x, es[k].y)
  IN  IF cands = {} THEN 0
      ELSE CHOOSE k \in cands :
             \A j \in cands : d(k) < d(j) \/ (d(k) = d(j) /\ k <= j)

\* a findClosestTarget that returns the first live entity of the owners
findClosestTargetFirstFound(es, i, targetOwners, excludeTypes) ==
  LET cands == { k \in 1..Len(es) : /\ es[k].ownerId \in targetOwners
                                    /\ es[k].hp > 0
                                    /\ es[k].type \notin excludeTypes }
  IN  IF cands = {} THEN 0
      ELSE CHOOSE k \in cands : \A j \in cands : k <= j

\* index in es of the closest live entity of the owners, 0 when there is none
findClosestTarget(es, i, targetOwners, excludeTypes) ==
  LET cands == { k \in 1..Len(es) : /\ es[k].ownerId \in targetOwners
                                    /\ es[k].hp > 0
                                    /\ es[k].type \notin excludeTypes }
      d(k) == DistSq(es[i].x, es[i].y, es[k].x, es[k].y)
  IN  IF cands = {} THEN 0
      ELSE CHOOSE k \in cands :
             \A j \in cands : d(k) < d(j) \/ (d(k) = d(j) /\ k <= j)

\* this.state.entities.find(e => e.id === id && e.hp > 0), 0 for undefined
findLive(es, id) ==
  LET found == { k \in 1..Len(es) : es[k].id = id /\ es[k].hp > 0 }
  IN  IF id = NoId \/ found = {} THEN 0
      ELSE CHOOSE k \in found : \A j \in found : k <= j

\* distancePointToSegment(p, a, b)^2
distancePointToSegmentSq(px, py, ax, ay, bx, by) ==
  LET dx == bx - ax
      dy == by - ay
      dd == dx * dx + dy * dy
      dot == (px - ax) * dx + (py - ay) * dy
  IN  IF dd = 0 \/ dot <= 0 THEN DistSq(px, py, ax, ay)
      ELSE IF dot >= dd THEN DistSq(px, py, bx, by)
      ELSE LET along == dot \div ISqrt(dd)
           IN  Max(0, DistSq(px, py, ax, ay) - along * along)

\* findBlockingWall without the comparison of distances: the first wall of the
\* list that qualifies
findBlockingWallFirstInList(es, i, t) ==
  LET distToTargetSq == DistSq(es[i].x, es[i].y, es[t].x, es[t].y)
      dw(k) == DistSq(es[i].x, es[i].y, es[k].x, es[k].y)
      cands == { k \in 1..Len(es) :
                   /\ es[k].type = "WALL" /\ es[k].hp > 0
                   /\ dw(k) <= WALL_TARGET_MAX_DISTANCE * WALL_TARGET_MAX_DISTANCE
                   /\ dw(k) < distToTargetSq
                   /\ LET wallRadius == IF es[k].radius = 0 THEN 80 ELSE es[k].radius
                      IN  distancePointToSegmentSq(es[k].x, es[k].y, es[i].x, es[i].y,
                                                   es[t].x, es[t].y)
                            <= (wallRadius + WALL_BLOCK_TOLERANCE)
                               * (wallRadius + WALL_BLOCK_TOLERANCE) }
  IN  IF cands = {} THEN 0
      ELSE CHOOSE k \in cands : \A j \in cands : k <= j

findBlockingWall(es, i, t) ==
  LET distToTargetSq == DistSq(es[i].x, es[i].y, es[t].x, es[t].y)
      dw(k) == DistSq(es[i].x, es[i].y, es[k].x, es[k].y)
      cands == { k \in 1..Len(es) :
                   /\ es[k].type = "WALL" /\ es[k].hp > 0
                   /\ dw(k) <= WALL_TARGET_MAX_DISTANCE * WALL_TARGET_MAX_DISTANCE
                   /\ dw(k) < distToTargetSq
                   /\ LET wallRadius == IF es[k].radius = 0 THEN 80 ELSE es[k].radius
                      IN  distancePointToSegmentSq(es[k].x, es[k].y, es[i].x, es[i].y,
                                                   es[t].x, es[t].y)
                            <= (wallRadius + WALL_BLOCK_TOLERANCE)
                               * (wallRadius + WALL_BLOCK_TOLERANCE) }
  IN  IF cands = {} THEN 0
      ELSE CHOOSE k \in cands :
             \A j \in cands : dw(k) < dw(j) \/ (dw(k) = dw(j) /\ k <= j)

findNearestWall(es, i, maxDistance) ==
  LET dw(k) == DistSq(es[i].x, es[i].y, es[k].x, es[k].y)
      cands == { k \in 1..Len(es) : /\ es[k].type = "WALL" /\ es[k].hp > 0
                                    /\ dw(k) <= maxDistance * maxDistance }
  IN  IF cands = {} THEN 0
      ELSE CHOOSE k \in cands :
             \A j \in cands : dw(k) < dw(j) \/ (dw(k) = dw(j) /\ k <= j)

\* ------------------------------------------------------------ update
getFacingFromVector(dx, dy) == IF dx - dy < 0 THEN -1 ELSE 1

\* a * b / c rounded to the nearest grid value (c > 0, b >= 0)
MulDiv(a, b, c) ==
  IF a >= 0 THEN (a * b + c \div 2) \div c ELSE -(((-a) * b + c \div 2) \div c)

clearPath(e) == [ e EXCEPT !.path = << >>, !.pathIndex = NoId ]

\* an acquireTarget that lets a unit look among the entities of every owner
acquireTargetOfAnyOwner(es, i, allPlayerIds) ==
  IF es[i].type = "ZOMBIE"
  THEN LET primaryTarget == findClosestTarget(es, i, allPlayerIds, {"WALL"})
           lockedTarget == findLive(es, es[i].targetId)
       IN  IF primaryTarget = 0 THEN 0
           ELSE IF lockedTarget # 0 /\ es[lockedTarget].type = "WALL" THEN lockedTarget
           ELSE primaryTarget
  ELSE findClosestTarget(es, i, allPlayerIds \cup {"enemy"}, {})

\* the target the entity first looks at: index in es, 0 for none
acquireTarget(es, i, allPlayerIds) ==
  IF es[i].type = "ZOMBIE"
  THEN LET primaryTarget == findClosestTarget(es, i, allPlayerIds, {"WALL"})
           lockedTarget == findLive(es, es[i].targetId)
       IN  IF primaryTarget = 0 THEN 0
           ELSE IF lockedTarget # 0 /\ es[lockedTarget].type = "WALL" THEN lockedTarget
           ELSE primaryTarget
  ELSE findClosestTarget(es, i, {"enemy"}, {})

\* the end of the planning branch: the path and the target are stored
setPlan(es, i, desiredTarget, path) ==
  [ e |-> [ es[i] EXCEPT !.path = path,
                         !.pathIndex = IF path = << >> THEN NoId ELSE 0,
                         !.targetId = es[desiredTarget].id,
                         !.pathCooldown = PATH_RECALC_INTERVAL ],
    t |-> desiredTarget ]

\* a zombie that was after target t and has no path turns to the nearest wall
nearbyWallPlan(es, i, t, desiredTarget, path, blockedTiles) ==
  LET e == es[i]
      nearbyWall == IF e.type = "ZOMBIE" /\ es[t].type # "WALL" /\ path = << >>
                    THEN findNearestWall(es, i, WALL_TARGET_MAX_DISTANCE) ELSE 0
  IN  IF nearbyWall # 0
      THEN setPlan(es, i, nearbyWall,
                   findPath(e.x, e.y, es[nearbyWall].x, es[nearbyWall].y, blockedTiles))
      ELSE setPlan(es, i, desiredTarget, path)

\* planAround that breaks a wall only to save a way: a wall close by is no reason
planAroundUnlessClose(es, i, t, path, wallTarget, blockedTiles) ==
  LET e == es[i]
      longer == 4 * getPathLength(path)
                  > 5 * ISqrt(DistSq(e.x, e.y, es[t].x, es[t].y))
      shouldBreakWall == wallTarget # 0 /\ (path = << >> \/ longer)
  IN  IF shouldBreakWall
      THEN nearbyWallPlan(es, i, t, wallTarget,
                          findPath(e.x, e.y, es[wallTarget].x, es[wallTarget].y,
                                   blockedTiles),
                          blockedTiles)
      ELSE nearbyWallPlan(es, i, t, t, path, blockedTiles)

\* a planAround that turns to every wall that blocks the way
planAroundNever(es, i, t, path, wallTarget, blockedTiles) ==
  LET e == es[i]
  IN  IF wallTarget # 0
      THEN nearbyWallPlan(es, i, t, wallTarget,
                          findPath(e.x, e.y, es[wallTarget].x, es[wallTarget].y,
                                   blockedTiles),
                          blockedTiles)
      ELSE nearbyWallPlan(es, i, t, t, path, blockedTiles)

\* the choice between the path to the target and the wall that blocks the way
\* (wallTarget is 0 when there is none)
planAround(es, i, t, path, wallTarget, blockedTiles) ==
  LET e == es[i]
      \* pathTime > directTime * 1.25, both divided by the same speed
      longer == 4 * getPathLength(path)
                  > 5 * ISqrt(DistSq(e.x, e.y, es[t].x, es[t].y))
      shouldBreakWall ==
        /\ wallTarget # 0
        /\ \/ path = << >>
           \/ longer
           \/ DistSq(e.x, e.y, es[wallTarget].x, es[wallTarget].y)
                <= WALL_BREAK_CLOSE_DISTANCE * WALL_BREAK_CLOSE_DISTANCE
  IN  IF shouldBreakWall
      THEN nearbyWallPlan(es, i, t, wallTarget,
                          findPath(e.x, e.y, es[wallTarget].x, es[wallTarget].y,
                                   blockedTiles),
                          blockedTiles)
      ELSE nearbyWallPlan(es, i, t, t, path, blockedTiles)

\* the path planning branch; gives the entity and its (possibly new) target
planPath(es, i, t, speed, blockedTiles) ==
  LET e == es[i]
  IN  planAround(es, i, t,
                 findPath(e.x, e.y, es[t].x, es[t].y, blockedTiles),
                 IF e.type = "ZOMBIE" /\ es[t].type # "WALL"
                 THEN findBlockingWall(es, i, t) ELSE 0,
                 blockedTiles)

\* the entity after a blocked step: path dropped, zombies lock a very near wall
blockedStep(es, i, e) ==
  LET stopped == [ clearPath(e) EXCEPT !.vx = 0, !.vy = 0,
                                       !.pathCooldown = PATH_RECALC_INTERVAL ]
      nearbyWall == IF e.type = "ZOMBIE"
                    THEN findNearestWall(es, i, WALL_BREAK_CLOSE_DISTANCE) ELSE 0
  IN  IF nearbyWall # 0
      THEN [ stopped EXCEPT !.targetId = es[nearbyWall].id, !.pathCooldown = 0 ]
      ELSE stopped

\* a tryMove that takes the step without a look at the ground
tryMoveUnchecked(es, i, e, dx, dy, length, stepX, stepY, ignoreTypes) ==
  [ e EXCEPT !.x = e.x + stepX, !.y = e.y + stepY,
             !.vx = MulDiv(dx, Scale, length),
             !.vy = MulDiv(dy, Scale, length),
             !.facing = getFacingFromVector(dx, dy) ]

\* the entity after trying to move by (stepX, stepY) towards (dx, dy)
tryMove(es, i, e, dx, dy, length, stepX, stepY, ignoreTypes) ==
  LET newX == e.x + stepX
      newY == e.y + stepY
  IN  IF isValidTerrain(newX, newY) /\ ~isPositionBlocked(es, newX, newY, e.id, ignoreTypes)
      THEN [ e EXCEPT !.x = newX, !.y = newY,
                      !.vx = MulDiv(dx, Scale, length),
                      !.vy = MulDiv(dy, Scale, length),
                      !.facing = getFacingFromVector(dx, dy) ]
      ELSE blockedStep(es, i, e)

\* the entity after a step towards waypoint: close to it, the next one is due
reachWaypoint(waypoint, moved) ==
  IF DistSq(waypoint[1], waypoint[2], moved.x, moved.y) < 20 * 20
  THEN [ moved EXCEPT !.pathIndex =
           (IF moved.pathIndex = NoId THEN 0 ELSE moved.pathIndex) + 1 ]
  ELSE moved

\* an attacker that strikes again when half of the cooldown has run
mayStrikeHalfCooled(e) == e.attackCooldown <= Scale \div 2

\* !entity.attackCooldown || entity.attackCooldown <= 0
mayStrike(e) == e.attackCooldown <= 0

\* the test of the attack branch: dist is within range + radius + buffer
inAttackRange(e, distSq, effectiveTargetRadius) ==
  LET reach == e.range + effectiveTargetRadius
  IN  e.range # 0
      /\ distSq <= (reach + ATTACK_RANGE_BUFFER) * (reach + ATTACK_RANGE_BUFFER)

\* the step entity e is about to try when it does not attack: << >> when it
\* tries none, else one record with the direction (dx, dy) of length, the
\* step (stepX, stepY), and the waypoint the step leads to (<< >> on the
\* straight way to the target)
stepTowards(e, target, distSq, effectiveTargetRadius, speed, dt) ==
  LET reach == e.range + effectiveTargetRadius
  IN  IF inAttackRange(e, distSq, effectiveTargetRadius) THEN << >>
      ELSE IF e.path # << >> /\ e.pathIndex # NoId /\ e.pathIndex < Len(e.path)
      THEN LET waypoint == e.path[e.pathIndex + 1]
               dx == waypoint[1] - e.x
               dy == waypoint[2] - e.y
               length == ISqrt(dx * dx + dy * dy)
               moveStep == (speed * dt) \div Scale
               step == Min(moveStep, length)
           IN  IF length > 0
               THEN << [ dx |-> dx, dy |-> dy, length |-> length,
                         stepX |-> MulDiv(dx, step, length),
                         stepY |-> MulDiv(dy, step, length),
                         waypoint |-> << waypoint >> ] >>
               ELSE << >>
      ELSE IF e.range # 0 /\ distSq > reach * reach
      THEN LET dx == target.x - e.x
               dy == target.y - e.y
               length == ISqrt(dx * dx + dy * dy)
               moveSpeed == (speed * dt) \div Scale
           IN  IF length > 0
               THEN << [ dx |-> dx, dy |-> dy, length |-> length,
                         stepX |-> MulDiv(dx, moveSpeed, length),
                         stepY |-> MulDiv(dy, moveSpeed, length),
                         waypoint |-> << >> ] >>
               ELSE << >>
      ELSE << >>

\* attack, follow the path, or walk straight: es after entity i acted on target t
\* (dist is the distance measured before a dropped wall target was replaced)
actOn(es, i, e, t, distSq, effectiveTargetRadius, speed, dt, ignoreTypes) ==
  LET target == es[t]
      tried == stepTowards(e, target, distSq, effectiveTargetRadius, speed, dt)
  IN  IF inAttackRange(e, distSq, effectiveTargetRadius)
      THEN LET stopped == [ clearPath(e) EXCEPT
                              !.vx = 0, !.vy = 0,
                              !.facing = getFacingFromVector(target.x - e.x, target.y - e.y) ]
           IN  IF mayStrike(e)
               THEN [ [ es EXCEPT ![i] = [ stopped EXCEPT !.attackCooldown = 1 * Scale ] ]
                        EXCEPT ![t].hp = @ - e.damage,
                               ![t].lastAttackerId = e.ownerId ]
               ELSE [ es EXCEPT ![i] = stopped ]
      ELSE IF tried = << >> THEN [ es EXCEPT ![i] = e ]
      ELSE LET went == tryMove(es, i, e, tried[1].dx, tried[1].dy, tried[1].length,
                               tried[1].stepX, tried[1].stepY, ignoreTypes)
           IN  [ es EXCEPT ![i] = IF tried[1].waypoint # << >>
                                  THEN reachWaypoint(tried[1].waypoint[1], went)
                                  ELSE went ]

\* the target the callback acts on once a wall that is out of reach was dropped:
\* es3 holds entity i without its target; 0 when the callback returns there
aimAfterDrop(es3, i, allPlayerIds) ==
  LET primaryTarget == findClosestTarget(es3, i, allPlayerIds, {"WALL"})
  IN  IF es3[i].type = "ZOMBIE" THEN primaryTarget ELSE 0

\* the target t2 is a wall farther off than WALL_TARGET_MAX_DISTANCE
dropsWall(es2, i, t2) ==
  /\ es2[t2].type = "WALL"
  /\ DistSq(es2[i].x, es2[i].y, es2[t2].x, es2[t2].y)
       > WALL_TARGET_MAX_DISTANCE * WALL_TARGET_MAX_DISTANCE

\* the entity as the drop of its wall target leaves it
withoutTarget(e2) == [ clearPath(e2) EXCEPT !.targetId = NoId, !.pathCooldown = 0 ]

\* the callback at the range check: the entities es, entity i as e, its target
\* t and the distance and radius the checks use (those measured before a
\* dropped wall was replaced); t is 0 when the callback returned at the drop
stanceOf(es0, i, planned, allPlayerIds) ==
  LET e2 == planned.e
      t2 == planned.t
      es2 == [ es0 EXCEPT ![i] = e2 ]
      distSq == DistSq(e2.x, e2.y, es2[t2].x, es2[t2].y)
      targetRadius == es2[t2].radius
      effectiveTargetRadius == IF es2[t2].type = "WALL" THEN Min(targetRadius, 60)
                               ELSE targetRadius
      e3 == withoutTarget(e2)
      es3 == [ es2 EXCEPT ![i] = e3 ]
  IN  IF ~dropsWall(es2, i, t2)
      THEN [ es |-> es2, e |-> e2, t |-> t2, distSq |-> distSq,
             effectiveTargetRadius |-> effectiveTargetRadius ]
      ELSE [ es |-> es3, e |-> e3, t |-> aimAfterDrop(es3, i, allPlayerIds),
             distSq |-> distSq, effectiveTargetRadius |-> effectiveTargetRadius ]

\* the callback from the distance check on: planned holds the entity and the
\* target as the planning left them
engage(es0, i, planned, speed, dt, ignoreTypes, allPlayerIds) ==
  LET stance == stanceOf(es0, i, planned, allPlayerIds)
  IN  IF stance.t = 0 THEN stance.es
      ELSE actOn(stance.es, i, stance.e, stance.t, stance.distSq,
                 stance.effectiveTargetRadius, speed, dt, ignoreTypes)

\* a needsNewPath that asks for a new path in every tick
needsNewPathAlways(e1, target) == TRUE

\* !entity.path || entity.targetId !== target.id || entity.pathIndex ===
\* undefined || entity.pathIndex >= entity.path.length
needsNewPath(e1, target) ==
  \/ e1.path = << >>
  \/ e1.targetId # target.id
  \/ e1.pathIndex = NoId
  \/ e1.pathIndex >= Len(e1.path)

\* the entity and its target after the planning branch or, when no path is
\* planned, after the look at the target it is locked on; t0 is the target that
\* was looked up first
aimAfterPlanning(es0, i, t0, dt, blockedTilesDefault, blockedTilesIgnoreEnemyBase) ==
  LET e0 == es0[i]
      speed == Max(10, IF e0.speed = 0 THEN 1 * Scale ELSE e0.speed)
      blockedTiles == IF e0.type = "ZOMBIE" THEN blockedTilesIgnoreEnemyBase
                      ELSE blockedTilesDefault
      e1 == [ e0 EXCEPT !.pathCooldown = Max(0, @ - dt) ]
      es1 == [ es0 EXCEPT ![i] = e1 ]
      lockedTarget == findLive(es1, e1.targetId)
  IN  IF needsNewPath(e1, es1[t0]) /\ e1.pathCooldown <= 0
      THEN planPath(es1, i, t0, speed, blockedTiles)
      ELSE [ e |-> e1,
             t |-> IF e1.targetId # NoId /\ e1.targetId # es1[t0].id
                      /\ lockedTarget # 0
                   THEN lockedTarget ELSE t0 ]

\* the callback once the target t0 was looked up (0: there is none)
pursue(es0, i, t0, dt, allPlayerIds, blockedTilesDefault, blockedTilesIgnoreEnemyBase) ==
  LET e0 == es0[i]
  IN  IF e0.type \notin {"UNIT", "ZOMBIE"} \/ t0 = 0 THEN es0
      ELSE engage(es0, i,
                  aimAfterPlanning(es0, i, t0, dt, blockedTilesDefault,
                                   blockedTilesIgnoreEnemyBase),
                  Max(10, IF e0.speed = 0 THEN 1 * Scale ELSE e0.speed), dt,
                  IF e0.type = "ZOMBIE" THEN {"ENEMY_BASE"} ELSE {},
                  allPlayerIds)

\* the forEach callback for entity i; es holds the changes made before in the tick
updateEntity(es, i, dt, allPlayerIds, blockedTilesDefault, blockedTilesIgnoreEnemyBase) ==
  LET e0 == IF es[i].attackCooldown > 0
            THEN [ es[i] EXCEPT !.attackCooldown = @ - dt ] ELSE es[i]
      es0 == [ es EXCEPT ![i] = e0 ]
  IN  pursue(es0, i, acquireTarget(es0, i, allPlayerIds), dt, allPlayerIds,
             blockedTilesDefault, blockedTilesIgnoreEnemyBase)

\* the callback for entity i takes the planning branch (and calls findPath)
plansIn(es, i, dt, allPlayerIds) ==
  LET e0 == IF es[i].attackCooldown > 0
            THEN [ es[i] EXCEPT !.attackCooldown = @ - dt ] ELSE es[i]
      es0 == [ es EXCEPT ![i] = e0 ]
      t0 == acquireTarget(es0, i, allPlayerIds)
      e1 == [ e0 EXCEPT !.pathCooldown = Max(0, @ - dt) ]
  IN  /\ e0.type \in {"UNIT", "ZOMBIE"}
      /\ t0 # 0
      /\ needsNewPath(e1, es0[t0])
      /\ e1.pathCooldown <= 0

\* the callback for entity i at the range check (see stanceOf); << >> when it
\* does not get there: no unit or zombie, or no target
stanceIn(es, i, dt, allPlayerIds, blockedTilesDefault, blockedTilesIgnoreEnemyBase) ==
  LET e0 == IF es[i].attackCooldown > 0
            THEN [ es[i] EXCEPT !.attackCooldown = @ - dt ] ELSE es[i]
      es0 == [ es EXCEPT ![i] = e0 ]
      t0 == acquireTarget(es0, i, allPlayerIds)
  IN  IF e0.type \notin {"UNIT", "ZOMBIE"} \/ t0 = 0 THEN << >>
      ELSE << stanceOf(es0, i,
                       aimAfterPlanning(es0, i, t0, dt, blockedTilesDefault,
                                        blockedTilesIgnoreEnemyBase),
                       allPlayerIds) >>

\* the target of the callback for entity i where it attacks or moves (the
\* variable target from the range check on): index in es, 0 when the callback
\* does not get there
aimOf(es, i, dt, allPlayerIds, blockedTilesDefault, blockedTilesIgnoreEnemyBase) ==
  LET stance == stanceIn(es, i, dt, allPlayerIds, blockedTilesDefault,
                         blockedTilesIgnoreEnemyBase)
  IN  IF stance = << >> THEN 0 ELSE stance[1].t

\* the position newX, newY that the callback for entity i computes and tests,
\* << >> when it computes none
triedBy(es, i, dt, allPlayerIds, blockedTilesDefault, blockedTilesIgnoreEnemyBase) ==
  LET stance == stanceIn(es, i, dt, allPlayerIds, blockedTilesDefault,
                         blockedTilesIgnoreEnemyBase)
      speed == Max(10, IF es[i].speed = 0 THEN 1 * Scale ELSE es[i].speed)
      tried == stepTowards(stance[1].e, stance[1].es[stance[1].t], stance[1].distSq,
                           stance[1].effectiveTargetRadius, speed, dt)
  IN  IF stance = << >> THEN << >>
      ELSE IF stance[1].t = 0 \/ tried = << >> THEN << >>
      ELSE << stance[1].e.x + tried[1].stepX, stance[1].e.y + tried[1].stepY >>

RECURSIVE eachEntity(_, _, _, _, _, _, _)
\* the callback run for the entities lo..hi, in order (halving keeps the
\* evaluation shallow)
eachEntity(es, lo, hi, dt, allPlayerIds, blockedTilesDefault, blockedTilesIgnoreEnemyBase) ==
  IF lo > hi \/ hi > Len(es) THEN es
  ELSE IF lo = hi
  THEN updateEntity(es, lo, dt, allPlayerIds, blockedTilesDefault,
                    blockedTilesIgnoreEnemyBase)
  ELSE eachEntity(eachEntity(es, lo, (lo + hi) \div 2, dt, allPlayerIds,
                             blockedTilesDefault, blockedTilesIgnoreEnemyBase),
                  (lo + hi) \div 2 + 1, hi, dt, allPlayerIds, blockedTilesDefault,
                  blockedTilesIgnoreEnemyBase)

forEachEntity(es, i, dt, allPlayerIds, blockedTilesDefault, blockedTilesIgnoreEnemyBase) ==
  eachEntity(es, i, Len(es), dt, allPlayerIds, blockedTilesDefault,
             blockedTilesIgnoreEnemyBase)

\* a sweep step that leaves currentPop as it is when a unit dies
removeDeadKeepingPop(players, e) ==
  LET bounty == IF e.type = "ZOMBIE" /\ e.lastAttackerId \in DOMAIN players
                   /\ ~players[e.lastAttackerId].defeated
                THEN [ players EXCEPT ![e.lastAttackerId].gold = @ + ZOMBIE_BOUNTY ]
                ELSE players
  IN  IF e.type = "BASE" /\ e.ownerId \in DOMAIN bounty
      THEN [ bounty EXCEPT ![e.ownerId].defeated = TRUE ]
      ELSE bounty

\* a sweep step that takes one off currentPop, unfloored, for every dead
\* entity of a player
removeDeadCountingAll(players, e) ==
  LET bounty == IF e.type = "ZOMBIE" /\ e.lastAttackerId \in DOMAIN players
                   /\ ~players[e.lastAttackerId].defeated
                THEN [ players EXCEPT ![e.lastAttackerId].gold = @ + ZOMBIE_BOUNTY ]
                ELSE players
      defeat == IF e.type = "BASE" /\ e.ownerId \in DOMAIN bounty
                THEN [ bounty EXCEPT ![e.ownerId].defeated = TRUE ]
                ELSE bounty
  IN  IF e.ownerId \in DOMAIN defeat
      THEN [ defeat EXCEPT ![e.ownerId].currentPop = @ - 1 ]
      ELSE defeat

\* a sweep step that pays the bounty to a defeated player as well
removeDeadPayingDefeated(players, e) ==
  LET bounty == IF e.type = "ZOMBIE" /\ e.lastAttackerId \in DOMAIN players
                THEN [ players EXCEPT ![e.lastAttackerId].gold = @ + ZOMBIE_BOUNTY ]
                ELSE players
      defeat == IF e.type = "BASE" /\ e.ownerId \in DOMAIN bounty
                THEN [ bounty EXCEPT ![e.ownerId].defeated = TRUE ]
                ELSE bounty
  IN  IF e.type = "UNIT" /\ e.ownerId \in DOMAIN defeat
      THEN [ defeat EXCEPT ![e.ownerId].currentPop = Max(0, @ - 1) ]
      ELSE defeat

\* a sweep step that leaves the defeated flag as it is when a base falls
removeDeadBaseUnmarked(players, e) ==
  LET bounty == IF e.type = "ZOMBIE" /\ e.lastAttackerId \in DOMAIN players
                   /\ ~players[e.lastAttackerId].defeated
                THEN [ players EXCEPT ![e.lastAttackerId].gold = @ + ZOMBIE_BOUNTY ]
                ELSE players
  IN  IF e.type = "UNIT" /\ e.ownerId \in DOMAIN bounty
      THEN [ bounty EXCEPT ![e.ownerId].currentPop = Max(0, @ - 1) ]
      ELSE bounty

\* a sweep step that takes the 5 places of a house that falls off maxPop
removeDeadLoweringMaxPop(players, e) ==
  LET bounty == IF e.type = "ZOMBIE" /\ e.lastAttackerId \in DOMAIN players
                   /\ ~players[e.lastAttackerId].defeated
                THEN [ players EXCEPT ![e.lastAttackerId].gold = @ + ZOMBIE_BOUNTY ]
                ELSE players
      defeat == IF e.type = "BASE" /\ e.ownerId \in DOMAIN bounty
                THEN [ bounty EXCEPT ![e.ownerId].defeated = TRUE ]
                ELSE bounty
      housed == IF e.type = "HOUSE" /\ e.ownerId \in DOMAIN defeat
                THEN [ defeat EXCEPT ![e.ownerId].maxPop = @ - 5 ]
                ELSE defeat
  IN  IF e.type = "UNIT" /\ e.ownerId \in DOMAIN housed
      THEN [ housed EXCEPT ![e.ownerId].currentPop = Max(0, @ - 1) ]
      ELSE housed

\* what the sweep does to the players when it removes the dead entity e
removeDead(players, e) ==
  LET bounty == IF e.type = "ZOMBIE" /\ e.lastAttackerId \in DOMAIN players
                   /\ ~players[e.lastAttackerId].defeated
                THEN [ players EXCEPT ![e.lastAttackerId].gold = @ + ZOMBIE_BOUNTY ]
                ELSE players
      defeat == IF e.type = "BASE" /\ e.ownerId \in DOMAIN bounty
                THEN [ bounty EXCEPT ![e.ownerId].defeated = TRUE ]
                ELSE bounty
  IN  IF e.type = "UNIT" /\ e.ownerId \in DOMAIN defeat
      THEN [ defeat EXCEPT ![e.ownerId].currentPop = Max(0, @ - 1) ]
      ELSE defeat

RECURSIVE sweepBelowZero(_, _, _, _)
\* a sweep that keeps an entity whose hp is exactly 0
sweepBelowZero(es, i, kept, players) ==
  IF i > Len(es) THEN [ entities |-> kept, players |-> players ]
  ELSE IF es[i].hp < 0
       THEN sweepBelowZero(es, i + 1, kept, removeDead(players, es[i]))
       ELSE sweepBelowZero(es, i + 1, Append(kept, es[i]), players)

RECURSIVE sweep(_, _, _, _)
\* the filter over the entities, in list order: [entities, players] afterwards
sweep(es, i, kept, players) ==
  IF i > Len(es) THEN [ entities |-> kept, players |-> players ]
  ELSE IF es[i].hp <= 0
       THEN sweep(es, i + 1, kept, removeDead(players, es[i]))
       ELSE sweep(es, i + 1, Append(kept, es[i]), players)

\* a game-over check that looks for the enemy base first
checkGameOverPlayersFirst(st) ==
  LET remainingPlayerBases == { k \in 1..Len(st.entities) : st.entities[k].type = "BASE" }
      enemyBase == { k \in 1..Len(st.entities) : st.entities[k].id = EnemyBaseId }
  IN  IF enemyBase = {}
      THEN [ st EXCEPT !.gameOver = TRUE, !.winner = "PLAYERS" ]
      ELSE IF remainingPlayerBases = {}
      THEN [ st EXCEPT !.gameOver = TRUE, !.winner = "ZOMBIES" ]
      ELSE st

\* the game-over check at the end of update
checkGameOver(st) ==
  LET remainingPlayerBases == { k \in 1..Len(st.entities) : st.entities[k].type = "BASE" }
      enemyBase == { k \in 1..Len(st.entities) : st.entities[k].id = EnemyBaseId }
  IN  IF remainingPlayerBases = {}
      THEN [ st EXCEPT !.gameOver = TRUE, !.winner = "ZOMBIES" ]
      ELSE IF enemyBase = {}
      THEN [ st EXCEPT !.gameOver = TRUE, !.winner = "PLAYERS" ]
      ELSE st

\* the end of update: the swept lists are stored and the game-over check runs
settle(st, swept) ==
  checkGameOver([ st EXCEPT !.entities = swept.entities, !.players = swept.players ])

\* update past its first line: the pass over the entities, the sweep and the
\* game-over check
runTick(st, dt) ==
  settle(st, sweep(forEachEntity(st.entities, 1, dt, DOMAIN st.players,
                                 buildBlockedTiles(st.entities, {}),
                                 buildBlockedTiles(st.entities, {"ENEMY_BASE"})),
                   1, << >>, st.players))

\* an update that runs the tick after the game is over as well
updateAfterGameOver(st, dt) == runTick(st, dt)

\* an update that lets the attack cooldowns run on when the game is over
updateCoolingDown(st, dt) ==
  IF st.gameOver
  THEN [ st EXCEPT !.entities =
           [ i \in 1..Len(st.entities) |->
               IF st.entities[i].attackCooldown > 0
               THEN [ st.entities[i] EXCEPT !.attackCooldown = @ - dt ]
               ELSE st.entities[i] ] ]
  ELSE runTick(st, dt)

update(st, dt) ==
  IF st.gameOver THEN st ELSE runTick(st, dt)

\* ------------------------------------------------------------ the machine
MaxTicks == 2
MaxOrders == 1
MaxIncomes == 1
MaxWaves == 1
MaxSteps == 2

\* operations performed so far
steps == orders + ticks + incomes + waves

\* deltaTime of a frame, in 1/Scale s
DeltaTimes == { 50, 100 }

\* shorter frames, for movements that need more than one of them
ShortDeltaTimes == { 20 }

PlayerCounts == { 1, 2, 4 }

\* who sends commands; "p9" is never a player of the session
Commanders == { "p1", "p2", "p9" }

\* the (x, y) a build command carries
ClickPoints ==
  { <<1230, 5270>>,   \* tile (12, 52), near the base of p1
    <<1000, 5400>>,   \* on the base of p1
    <<3250, 3250>>,   \* mid-map: valid terrain, far from every base
    <<100, 100>>,     \* outside the corridor
    <<-50, 5400>> }   \* off the map

\* a late state of a session of n players, as the tick leaves it after many
\* rounds: every base is under attack by a zombie that stands in reach of it
\* and has just struck, four soldiers of p1 stand in reach of the enemy base
\* and have just struck, and bases and fighters are worn down.  baseHits: 0,
\* every base falls to the next hit; 1, the bases of the even players do and
\* those of the odd players fall to the hit after; 2, every base falls to the
\* hit after the next.  enemyHits: the volleys of the four soldiers the enemy
\* base survives.
zombieHp(n) == ((30 + 1 * 5) * playerMultiplier(n)) \div 10

zombieDamage(n) == ((5 + 1 * 1) * playerMultiplier(n)) \div 10

BaseHits == { 0, 1, 2 }

EnemyHits == { 0, 2 }

Siege(n, baseHits, enemyHits) ==
  LET fresh == createInitialState(n)
      dmg == zombieDamage(n)
      worn(hp, d, hitsLeft) == (hp % d) + d * hitsLeft
      base(i) == [ fresh.entities[i] EXCEPT
                     !.hp = worn(1000, dmg, IF i % 2 = 1 THEN (baseHits + 1) \div 2
                                                         ELSE baseHits \div 2),
                     !.lastAttackerId = "enemy" ]
      enemyBase == [ fresh.entities[n + 1] EXCEPT !.hp = 40 * (enemyHits + 1),
                                                  !.lastAttackerId = "p1" ]
      zombie(i) == [ Entity(10 + i, "ZOMBIE", BASE_POSITIONS[i][1] + 150,
                            BASE_POSITIONS[i][2] - 150, zombieHp(n), 40, "enemy",
                            dmg, 80, 80, "")
                       EXCEPT !.hp = IF i = 1 THEN worn(zombieHp(n), 10, 0) ELSE @,
                              !.lastAttackerId = IF i = 1 THEN "p1" ELSE "",
                              !.targetId = i,
                              !.attackCooldown = 1 * Scale,
                              !.pathCooldown = PATH_RECALC_INTERVAL ]
      soldier(k, dx, dy) ==
        LET u == UNIT_TYPES["SOLDIER"]
        IN  [ Entity(20 + k, "UNIT", enemyBasePos[1] + dx, enemyBasePos[2] + dy, u.hp,
                     u.radius, "p1", u.damage, u.range, u.speed, "SOLDIER")
                EXCEPT !.hp = IF k \in { 1, 4 } THEN worn(u.hp, dmg, 0) ELSE @,
                       !.lastAttackerId = IF k \in { 1, 4 } THEN "enemy" ELSE "",
                       !.targetId = EnemyBaseId,
                       !.attackCooldown = 1 * Scale,
                       !.pathCooldown = PATH_RECALC_INTERVAL ]
  IN  [ fresh EXCEPT
          !.players["p1"].gold = 250,
          !.players["p1"].currentPop = 4,
          !.entities = [ i \in 1..n |-> base(i) ] \o << enemyBase >>
                       \o [ i \in 1..n |-> zombie(i) ]
                       \o << soldier(1, 50, 250), soldier(2, 250, 150),
                              soldier(3, 150, -250), soldier(4, -250, -50) >> ]

\* the siege with a guard at the base of p1: a soldier of p2 (of p1 in a session
\* of one) that stands in reach of the zombie there and has just struck it; the
\* zombie was struck by a unit of p1 before and falls to the next hit
Skirmish(n, baseHits) ==
  LET siege == Siege(n, baseHits, 2)
      owner == PlayerIds[IF n = 1 THEN 1 ELSE 2]
      u == UNIT_TYPES["SOLDIER"]
      guard == [ Entity(25, "UNIT", BASE_POSITIONS[1][1] + 250, BASE_POSITIONS[1][2] - 250,
                        u.hp, u.radius, owner, u.damage, u.range, u.speed, "SOLDIER")
                   EXCEPT !.targetId = 11,
                          !.attackCooldown = 1 * Scale,
                          !.pathCooldown = PATH_RECALC_INTERVAL ]
  IN  [ siege EXCEPT !.players[owner].currentPop = @ + 1,
                     !.entities = Append(@, guard) ]

\* the skirmish with a second guard of the same owner at the base of p1, which
\* stands in reach of the same zombie and has just struck it too
Crossfire(n, baseHits) ==
  LET skirmish == Skirmish(n, baseHits)
      owner == PlayerIds[IF n = 1 THEN 1 ELSE 2]
      u == UNIT_TYPES["SOLDIER"]
      guard == [ Entity(26, "UNIT", BASE_POSITIONS[1][1] + 60, BASE_POSITIONS[1][2] - 240,
                        u.hp, u.radius, owner, u.damage, u.range, u.speed, "SOLDIER")
                   EXCEPT !.targetId = 11,
                          !.attackCooldown = 1 * Scale,
                          !.pathCooldown = PATH_RECALC_INTERVAL ]
  IN  [ skirmish EXCEPT !.players[owner].currentPop = @ + 1,
                        !.entities = Append(@, guard) ]

\* the siege with a guard at the base of p1 that fights the zombie there: the
\* soldier stands one tile from the zombie, each is after the other and has
\* just struck it, and each falls to the next hit of the other
Duel(n, baseHits) ==
  LET siege == Siege(n, baseHits, 2)
      owner == PlayerIds[IF n = 1 THEN 1 ELSE 2]
      u == UNIT_TYPES["SOLDIER"]
      dmg == zombieDamage(n)
      zombie == n + 2
      guard == [ Entity(25, "UNIT", BASE_POSITIONS[1][1] + 250, BASE_POSITIONS[1][2] - 150,
                        u.hp, u.radius, owner, u.damage, u.range, u.speed, "SOLDIER")
                   EXCEPT !.hp = IF u.hp % dmg = 0 THEN dmg ELSE u.hp % dmg,
                          !.lastAttackerId = "enemy",
                          !.targetId = 11,
                          !.attackCooldown = 1 * Scale,
                          !.pathCooldown = PATH_RECALC_INTERVAL ]
  IN  [ siege EXCEPT !.players[owner].currentPop = @ + 1,
                     !.entities = Append([ @ EXCEPT ![zombie].targetId = 25 ], guard) ]

\* the siege of a session of one in which p1 has built a house on tile (14, 50)
\* and bought two more soldiers, which stand in reach of the enemy base with the
\* other four: a second zombie stands in reach of the house, has just struck it
\* and brings it down with the next hit
Razing(baseHits) ==
  LET siege == Siege(1, baseHits, 2)
      dmg == zombieDamage(1)
      u == UNIT_TYPES["SOLDIER"]
      house == [ Entity(30, "HOUSE", 1450, 5050, 100, 100, "p1", 0, 0, 0, "")
                   EXCEPT !.hp = 100 % dmg,
                          !.lastAttackerId = "enemy" ]
      zombie == [ Entity(19, "ZOMBIE", 1550, 5050, zombieHp(1), 40, "enemy", dmg, 80, 80, "")
                    EXCEPT !.targetId = 30,
                           !.attackCooldown = 1 * Scale,
                           !.pathCooldown = PATH_RECALC_INTERVAL ]
      soldier(k, dx, dy) ==
        [ Entity(20 + k, "UNIT", enemyBasePos[1] + dx, enemyBasePos[2] + dy, u.hp,
                 u.radius, "p1", u.damage, u.range, u.speed, "SOLDIER")
            EXCEPT !.targetId = EnemyBaseId,
                   !.attackCooldown = 1 * Scale,
                   !.pathCooldown = PATH_RECALC_INTERVAL ]
  IN  [ siege EXCEPT !.players["p1"].currentPop = @ + 2,
                     !.players["p1"].maxPop = @ + 5,
                     !.entities = @ \o << house, zombie, soldier(7, -150, 250),
                                          soldier(8, 250, -150) >> ]

Init ==
  /\ playerCount \in PlayerCounts
  /\ \/ state = createInitialState(playerCount)
     \/ \E baseHits \in BaseHits, enemyHits \in EnemyHits :
          state = Siege(playerCount, baseHits, enemyHits)
     \/ playerCount = 2 /\ \E baseHits \in BaseHits : state = Skirmish(playerCount, baseHits)
     \/ playerCount = 1 /\ \E baseHits \in { 2 } : state = Razing(baseHits)
  /\ nextId = FirstGeneratedId
  /\ orders = 0
  /\ ticks = 0
  /\ incomes = 0
  /\ waves = 0
  /\ query = << >>
  /\ route = << >>
  /\ NoNet
  /\ sinceStrike = << >>
  /\ sincePlan = << >>

\* a command: the new state, and one id used when an entity was added
Command(st) ==
  /\ state' = st
  /\ nextId' = nextId + (Len(st.entities) - Len(state.entities))
  /\ orders' = IF st = state THEN orders ELSE orders + 1
  /\ UNCHANGED << playerCount, ticks, incomes, waves, query, route, net, sinceStrike, sincePlan >>

SpawnUnit ==
  /\ orders < MaxOrders /\ steps < MaxSteps
  /\ \E p \in Commanders, t \in DOMAIN UNIT_TYPES, off \in RingOffsets :
       Command(spawnUnit(state, p, t, off, nextId))

BuildHouse ==
  /\ orders < MaxOrders /\ steps < MaxSteps
  /\ \E p \in Commanders, c \in ClickPoints :
       Command(buildHouse(state, p, c[1], c[2], nextId))

BuildMine ==
  /\ orders < MaxOrders /\ steps < MaxSteps
  /\ \E p \in Commanders, c \in ClickPoints :
       Command(buildMine(state, p, c[1], c[2], nextId))

BuildWall ==
  /\ orders < MaxOrders /\ steps < MaxSteps
  /\ \E p \in Commanders, c \in ClickPoints :
       Command(buildWall(state, p, c[1], c[2], nextId))

PassiveIncome ==
  /\ incomes < MaxIncomes /\ steps < MaxSteps
  /\ state' = passiveIncome(state)
  /\ incomes' = incomes + 1
  /\ UNCHANGED << playerCount, nextId, orders, ticks, waves, query, route,
                  net, sinceStrike, sincePlan >>

\* the ring points of the zombies of one wave: they alternate between the two
\* points
WaveOffsets(n) ==
  { [ k \in 1..zombiesToSpawn(n) |-> IF k % 2 = 1 THEN <<0, 2 * Scale>>
                                                   ELSE <<-2 * Scale, 0>> ] }

ZombieWave ==
  /\ waves < MaxWaves /\ steps < MaxSteps
  /\ \E offs \in WaveOffsets(playerCount) :
       LET st == IF state.gameOver THEN state
                 ELSE spawnZombieWave(state, playerCount, offs, nextId)
       IN  /\ state' = st
           /\ nextId' = nextId + (Len(st.entities) - Len(state.entities))
  /\ waves' = waves + 1
  /\ UNCHANGED << playerCount, orders, ticks, incomes, query, route, net, sinceStrike, sincePlan >>

Update ==
  /\ ticks < MaxTicks /\ steps < MaxSteps
  /\ \E dt \in DeltaTimes : state' = update(state, dt)
  /\ ticks' = ticks + 1
  /\ UNCHANGED << playerCount, nextId, orders, incomes, waves, query, route,
                  net, sinceStrike, sincePlan >>

Next ==
  \/ SpawnUnit
  \/ BuildHouse
  \/ BuildMine
  \/ BuildWall
  \/ PassiveIncome
  \/ ZombieWave
  \/ Update

Spec == Init /\ [][Next]_vars

\* ------------------------------------------------------------ the pathfinder
\* st after p1 built a wall at each of the sites, in turn
RECURSIVE walled(_, _, _)
walled(st, sites, i) ==
  IF i > Len(sites) THEN st
  ELSE walled(buildWall(st, "p1", sites[i][1], sites[i][2], FirstGeneratedId + i - 1),
              sites, i + 1)

\* the walls p1 builds from the 150 gold it has after the first passive income:
\* none; one on tile (11, 52), between the base and tile (12, 51); that one and
\* one on (12, 50); four that close off the map-edge tile (0, 45), whose other
\* neighbours are off the map or no terrain
WallPlans ==
  { << >>,
    << <<1150, 5250>> >>,
    << <<1150, 5250>>, <<1250, 5050>> >>,
    << <<150, 4550>>, <<50, 4650>>, <<150, 4650>>, <<150, 4450>> >> }

\* p1 built a house on tile (8, 55) and then spawned a soldier, which the ring
\* point put on that tile
Housed ==
  spawnUnit(buildHouse(createInitialState(1), "p1", 850, 5550, FirstGeneratedId),
            "p1", "SOLDIER", <<-141, 141>>, FirstGeneratedId + 1)

PathWorlds ==
  { walled(passiveIncome(createInitialState(1)), plan, 1) : plan \in WallPlans }
  \cup { Housed }

\* where a search starts: the fighters of the world, and points a fighter can
\* stand at
PathStarts(st) ==
  { << st.entities[k].x, st.entities[k].y >> :
      k \in { j \in 1..Len(st.entities) : st.entities[j].type \in { "UNIT", "ZOMBIE" } } }
  \cup { <<1250, 5150>>,     \* tile (12, 51)
         <<50, 4550>>,       \* tile (0, 45)
         <<1320, 5080>> }    \* tile (13, 50)

\* where a search goes: the entities of the world, and points a target can be at
PathGoals(st) ==
  { << st.entities[k].x, st.entities[k].y >> : k \in 1..Len(st.entities) }
  \cup { <<50, 4550>>,       \* tile (0, 45)
         <<1050, 4850>>,     \* tile (10, 48)
         <<1250, 5350>> }    \* tile (12, 53)

PathInit ==
  /\ playerCount = 1
  /\ state \in PathWorlds
  /\ nextId = FirstGeneratedId + Len(state.entities) - 2
  /\ orders = 0
  /\ ticks = 0
  /\ incomes = 0
  /\ waves = 0
  /\ query = << >>
  /\ route = << >>
  /\ NoNet
  /\ sinceStrike = << >>
  /\ sincePlan = << >>

\* a findPath call as update makes it, one in a run: the blocked tiles are those of the
\* entities, for a unit or (the enemy base left out) for a zombie
FindPath ==
  /\ query = << >>
  /\ \E s \in PathStarts(state), g \in PathGoals(state), ignoreTypes \in { {}, { "ENEMY_BASE" } } :
       LET blockedTiles == buildBlockedTiles(state.entities, ignoreTypes)
       IN  /\ query' = << [ startX |-> s[1], startY |-> s[2], goalX |-> g[1], goalY |-> g[2],
                            blockedTiles |-> blockedTiles ] >>
           /\ route' = findPath(s[1], s[2], g[1], g[2], blockedTiles)
           /\ UNCHANGED << state, playerCount, nextId, orders, ticks, incomes, waves,
                           net, sinceStrike, sincePlan >>

PathSpec == PathInit /\ [][FindPath]_vars

\* ------------------------------------------------------------ walls in the way
\* a session of one player in which p1, after three passive incomes, built the
\* walls and a zombie of the first wave has walked up to (zx, zy) on its way to
\* the base of p1: its last path is used up and the next one is due
Breach(walls, zx, zy) ==
  LET income == passiveIncome(passiveIncome(passiveIncome(createInitialState(1))))
      built == walled(income, walls, 1)
      zombie == [ Entity(FirstGeneratedId + Len(walls), "ZOMBIE", zx, zy, zombieHp(1), 40,
                         "enemy", zombieDamage(1), 80, 80, "")
                    EXCEPT !.targetId = 1,
                           !.pathCooldown = PATH_RECALC_INTERVAL ]
  IN  [ built EXCEPT !.entities = Append(@, zombie) ]

\* the walls (by the point clicked) and where the zombie stands: the base of p1
\* is at (1000, 5400), and the walls on tiles (11, 52) and (12, 51) have their
\* centres on the straight line from each of the first four zombies to it
BreachPlans ==
  { << << <<1150, 5250>> >>, <<1300, 5100>> >>,    \* wall (11, 52) at 2.1 tiles
    << << <<1150, 5250>> >>, <<1400, 5000>> >>,    \* at 3.5 tiles
    << << <<1150, 5250>> >>, <<1600, 4800>> >>,    \* at 6.4 tiles
    << << <<1150, 5250>>, <<1250, 5150>> >>, <<1400, 5000>> >>,
                                                  \* and wall (12, 51) at 2.1 tiles
    << << <<1250, 5050>>, <<1350, 5150>> >>, <<1350, 5050>> >> }
                                                  \* walls (12, 50), (13, 51) at 1 tile

BreachInit ==
  /\ playerCount = 1
  /\ \E plan \in BreachPlans : state = Breach(plan[1], plan[2][1], plan[2][2])
  /\ nextId = FirstGeneratedId + Len(state.entities) - 2
  /\ orders = 0
  /\ ticks = 0
  /\ incomes = 0
  /\ waves = 0
  /\ query = << >>
  /\ route = << >>
  /\ NoNet
  /\ sinceStrike = << >>
  /\ sincePlan = << >>

BreachSpec == BreachInit /\ [][Next]_vars

\* ------------------------------------------------------------ the terrain test
\* coordinates isValidTerrain is asked about: every half tile of the map, and
\* values off it on either side
TerrainCoords == { -50, -1 } \cup { 50 * k : k \in 0..129 }

\* every session size BASE_POSITIONS provides for
SessionSizes == 1..8

\* a session of any size has just been constructed
TerrainInit ==
  /\ playerCount \in SessionSizes
  /\ state = createInitialState(playerCount)
  /\ nextId = FirstGeneratedId
  /\ orders = 0
  /\ ticks = 0
  /\ incomes = 0
  /\ waves = 0
  /\ query = << >>
  /\ route = << >>
  /\ NoNet
  /\ sinceStrike = << >>
  /\ sincePlan = << >>

\* an isValidTerrain call, one in a run
IsValidTerrain ==
  /\ query = << >>
  /\ \E x \in TerrainCoords, y \in TerrainCoords :
       /\ query' = << [ x |-> x, y |-> y ] >>
       /\ route' = << isValidTerrain(x, y) >>
  /\ UNCHANGED << state, playerCount, nextId, orders, ticks, incomes, waves,
                  net, sinceStrike, sincePlan >>

TerrainSpec == TerrainInit /\ [][IsValidTerrain]_vars

\* ------------------------------------------------------------ multiplayer
MaxInFlight == 2

\* Object.assign(target, source): the own fields of source, copied onto target
ObjectAssign(target, source) ==
  [ f \in DOMAIN target \cup DOMAIN source |->
      IF f \in DOMAIN source THEN source[f] ELSE target[f] ]

\* networkManager.sendSync(state): the message that is broadcast
sendSync(st) == [ type |-> "SYNC", payload |-> st ]

\* networkManager.sendAction(action)
sendAction(action) == [ type |-> "ACTION", payload |-> action ]

\* the onMessage callback of App, as far as it touches engineRef.current.state:
\* st is the state of the receiver; off and id are what Math.random and
\* generateId give a unit that is spawned
onMessage(st, isHost, message, off, id) ==
  IF message.type = "SYNC"
  THEN IF ~isHost THEN ObjectAssign(st, message.payload) ELSE st
  ELSE LET action == message.payload
       IN  IF action.action = "spawnUnit"
           THEN spawnUnit(st, action.playerId, action.unitType, off, id)
           ELSE IF action.action = "buildHouse"
           THEN buildHouse(st, action.playerId, action.x, action.y, id)
           ELSE IF action.action = "buildMine"
           THEN buildMine(st, action.playerId, action.x, action.y, id)
           ELSE IF action.action = "buildWall"
           THEN buildWall(st, action.playerId, action.x, action.y, id)
           ELSE st

\* handleBuyUnit: the state of the caller afterwards, and what it sent
handleBuyUnit(st, isMultiplayer, isHost, localPlayerId, type, off, id) ==
  IF isMultiplayer /\ ~isHost
  THEN [ state |-> st,
         sent |-> << sendAction([ action |-> "spawnUnit", playerId |-> localPlayerId,
                                  unitType |-> type ]) >> ]
  ELSE [ state |-> spawnUnit(st, localPlayerId, type, off, id), sent |-> << >> ]

\* handleTileSelect in build mode, for buildType house, mine and wall
handleTileSelect(st, isMultiplayer, isHost, localPlayerId, buildType, x, y, id) ==
  IF isMultiplayer /\ ~isHost
  THEN [ state |-> st,
         sent |-> << sendAction([ action |-> IF buildType = "house" THEN "buildHouse"
                                             ELSE IF buildType = "mine" THEN "buildMine"
                                             ELSE "buildWall",
                                  playerId |-> localPlayerId, x |-> x, y |-> y ]) >> ]
  ELSE [ state |-> IF buildType = "house" THEN buildHouse(st, localPlayerId, x, y, id)
                   ELSE IF buildType = "mine" THEN buildMine(st, localPlayerId, x, y, id)
                   ELSE buildWall(st, localPlayerId, x, y, id),
         sent |-> << >> ]

\* a render that runs the simulation on every client
renderEverywhere(st, isHost, dt) == update(st, dt)

\* the simulation part of render in GameCanvas
render(st, isHost, dt) == IF isHost THEN update(st, dt) ELSE st

\* the passive-gold timer of GameCanvas: it is set on the host only
goldTimer(st, isHost) == IF ~isHost THEN st ELSE passiveIncome(st)

\* the zombie-spawning timer of GameCanvas: it is set on the host only
zombieTimer(st, isHost, n, offs, id) ==
  IF ~isHost \/ st.gameOver THEN st ELSE spawnZombieWave(st, n, offs, id)

\* the guests of a session, by the peer ids they joined with
Peers == << "a", "b", "c" >>

\* the host's App and NetworkManager while a session of n is played: the guests
\* joined one after the other, and each sent its playerInfo
Playing(n) ==
  [ isPlaying |-> TRUE,
    isInLobby |-> FALSE,
    lobbyPlayers |-> [ i \in 1..n |-> PlayerIds[i] ],
    connections |-> { Peers[i] : i \in 1..(n - 1) },
    peerToPlayer |-> { << Peers[i], PlayerIds[i + 1] >> : i \in 1..(n - 1) },
    nextPlayerId |-> n + 1,
    callbacks |-> { },
    infos |-> { } ]

\* a session of two has begun: the host (p1) and the guest (p2) each built the
\* engine from the startGame data
NetInit ==
  /\ playerCount = 2
  /\ state = createInitialState(playerCount)
  /\ guest = createInitialState(playerCount)
  /\ wire = << >>
  /\ intents = << >>
  /\ hostHad = { state }
  /\ app = Playing(playerCount)
  /\ nextId = FirstGeneratedId
  /\ orders = 0
  /\ ticks = 0
  /\ incomes = 0
  /\ waves = 0
  /\ query = << >>
  /\ route = << >>
  /\ sinceStrike = << >>
  /\ sincePlan = << >>

\* what is bought and built in a session of two: soldiers, and houses and walls
\* on tile (19, 45), close to the base of p2 and 12.7 tiles from that of p1
NetUnitTypes == { "SOLDIER" }

NetBuildTypes == { "house", "wall" }

NetClicks == { <<1930, 4570>> }

\* the host's engine state becomes st
HostDoes(st) ==
  /\ state' = st
  /\ hostHad' = hostHad \cup { st }
  /\ nextId' = nextId + (Len(st.entities) - Len(state.entities))
  /\ UNCHANGED << playerCount, query, route, guest, wire, sinceStrike, sincePlan, app >>

HostFrame ==
  /\ app.isPlaying
  /\ ticks < MaxTicks /\ steps < MaxSteps
  /\ \E dt \in DeltaTimes : HostDoes(render(state, TRUE, dt))
  /\ ticks' = ticks + 1
  /\ UNCHANGED << orders, incomes, waves, intents >>

HostGold ==
  /\ incomes < MaxIncomes /\ steps < MaxSteps
  /\ HostDoes(goldTimer(state, TRUE))
  /\ incomes' = incomes + 1
  /\ UNCHANGED << orders, ticks, waves, intents >>

HostZombies ==
  /\ waves < MaxWaves /\ steps < MaxSteps
  /\ \E offs \in WaveOffsets(playerCount) :
       HostDoes(zombieTimer(state, TRUE, playerCount, offs, nextId))
  /\ waves' = waves + 1
  /\ UNCHANGED << orders, ticks, incomes, intents >>

\* the host buys or builds: it calls its own engine
HostOrder ==
  /\ orders < MaxOrders /\ steps < MaxSteps
  /\ \E done \in
         { handleBuyUnit(state, TRUE, TRUE, "p1", t, off, nextId) :
             t \in NetUnitTypes, off \in RingOffsets }
         \cup { handleTileSelect(state, TRUE, TRUE, "p1", b, c[1], c[2], nextId) :
                  b \in NetBuildTypes, c \in NetClicks } :
       /\ done.sent = << >>
       /\ HostDoes(done.state)
       /\ orders' = IF done.state = state THEN orders ELSE orders + 1
  /\ UNCHANGED << ticks, incomes, waves, intents >>

\* the host's sync interval fires
HostSync ==
  /\ app.isPlaying
  /\ Len(wire) < MaxInFlight
  /\ wire' = Append(wire, sendSync(state))
  /\ UNCHANGED << state, playerCount, nextId, orders, ticks, incomes, waves, query, route,
                  guest, intents, hostHad, sinceStrike, sincePlan, app >>

\* a message of the guest reaches the host
HostReceives ==
  /\ intents # << >>
  /\ \E off \in RingOffsets :
       LET st == onMessage(state, TRUE, Head(intents), off, nextId)
       IN  /\ HostDoes(st)
           /\ orders' = IF st = state THEN orders ELSE orders + 1
  /\ intents' = Tail(intents)
  /\ UNCHANGED << ticks, incomes, waves >>

\* a message of the host reaches the guest
GuestReceives ==
  /\ wire # << >>
  /\ \E off \in RingOffsets : guest' = onMessage(guest, FALSE, Head(wire), off, nextId)
  /\ wire' = Tail(wire)
  /\ UNCHANGED << state, playerCount, nextId, orders, ticks, incomes, waves, query, route,
                  intents, hostHad, sinceStrike, sincePlan, app >>

\* an animation frame on the guest
GuestFrame ==
  /\ \E dt \in DeltaTimes : guest' = render(guest, FALSE, dt)
  /\ UNCHANGED << state, playerCount, nextId, orders, ticks, incomes, waves, query, route,
                  wire, intents, hostHad, sinceStrike, sincePlan, app >>

\* the gold timer on the guest
GuestGold ==
  /\ guest' = goldTimer(guest, FALSE)
  /\ UNCHANGED << state, playerCount, nextId, orders, ticks, incomes, waves, query, route,
                  wire, intents, hostHad, sinceStrike, sincePlan, app >>

\* the zombie timer on the guest
GuestZombies ==
  /\ \E offs \in WaveOffsets(playerCount) :
       guest' = zombieTimer(guest, FALSE, playerCount, offs, nextId)
  /\ UNCHANGED << state, playerCount, nextId, orders, ticks, incomes, waves, query, route,
                  wire, intents, hostHad, sinceStrike, sincePlan, app >>

\* the guest buys or builds
GuestOrder ==
  /\ orders + Len(intents) < MaxOrders /\ steps + Len(intents) < MaxSteps
  /\ \E done \in
         { handleBuyUnit(guest, TRUE, FALSE, "p2", t, off, nextId) :
             t \in NetUnitTypes, off \in RingOffsets }
         \cup { handleTileSelect(guest, TRUE, FALSE, "p2", b, c[1], c[2], nextId) :
                  b \in NetBuildTypes, c \in NetClicks } :
       /\ guest' = done.state
       /\ intents' = intents \o done.sent
  /\ UNCHANGED << state, playerCount, nextId, orders, ticks, incomes, waves, query, route,
                  wire, hostHad, sinceStrike, sincePlan, app >>

NetNext ==
  \/ HostFrame
  \/ HostGold
  \/ HostZombies
  \/ HostOrder
  \/ HostSync
  \/ HostReceives
  \/ GuestReceives
  \/ GuestFrame
  \/ GuestGold
  \/ GuestZombies
  \/ GuestOrder

NetSpec == NetInit /\ [][NetNext]_vars

\* ------------------------------------------------------------ attacks over time
RECURSIVE passTrace(_, _, _, _, _, _)
\* the entities as each callback of the pass finds and leaves them: the first
\* element is es before the callback of entity i, the next one es after it, and
\* so on to the end of the list
passTrace(es, i, dt, allPlayerIds, blockedTilesDefault, blockedTilesIgnoreEnemyBase) ==
  IF i > Len(es) THEN << es >>
  ELSE << es >>
       \o passTrace(updateEntity(es, i, dt, allPlayerIds, blockedTilesDefault,
                                 blockedTilesIgnoreEnemyBase),
                    i + 1, dt, allPlayerIds, blockedTilesDefault,
                    blockedTilesIgnoreEnemyBase)

\* the pass of update(st, dt) over the entities, callback by callback
passOf(st, dt) ==
  IF st.gameOver THEN << st.entities >>
  ELSE passTrace(st.entities, 1, dt, DOMAIN st.players,
                 buildBlockedTiles(st.entities, {}),
                 buildBlockedTiles(st.entities, {"ENEMY_BASE"}))

\* the entities whose hp the callback of entity i changed
struckBy(trace, i) ==
  { k \in 1..Len(trace[i]) : trace[i + 1][k].hp # trace[i][k].hp }

\* the entities that attacked in the pass
strikers(trace) == { i \in 1..(Len(trace) - 1) : struckBy(trace, i) # {} }

\* the late states of a session in which every fighter has just struck
StrikeInit ==
  /\ playerCount \in PlayerCounts
  /\ \/ \E baseHits \in BaseHits, enemyHits \in EnemyHits :
          state = Siege(playerCount, baseHits, enemyHits)
     \/ playerCount = 2 /\ \E baseHits \in BaseHits : state = Skirmish(playerCount, baseHits)
     \/ playerCount = 2 /\ \E baseHits \in BaseHits : state = Crossfire(playerCount, baseHits)
     \/ playerCount = 2 /\ \E baseHits \in BaseHits : state = Duel(playerCount, baseHits)
  /\ sinceStrike =
       [ id \in { state.entities[k].id : k \in 1..Len(state.entities) } |->
           LET e == state.entities[CHOOSE k \in 1..Len(state.entities) :
                                     state.entities[k].id = id]
           IN  IF e.attackCooldown = 1 * Scale THEN 0 ELSE 1 * Scale ]
  /\ nextId = FirstGeneratedId
  /\ orders = 0
  /\ ticks = 0
  /\ incomes = 0
  /\ waves = 0
  /\ query = << >>
  /\ route = << >>
  /\ NoNet
  /\ sincePlan = << >>

\* the record of the attacks after the pass trace of a tick of dt that left st
struckSince(since, es, trace, dt, st) ==
  [ id \in { st.entities[k].id : k \in 1..Len(st.entities) } |->
      IF \E i \in strikers(trace) : es[i].id = id THEN 0
      ELSE Min(1 * Scale, since[id] + dt) ]

\* an animation frame, with the record of who attacked
StrikeTick ==
  /\ ticks < MaxTicks
  /\ \E dt \in DeltaTimes :
       /\ state' = update(state, dt)
       /\ sinceStrike' = struckSince(sinceStrike, state.entities, passOf(state, dt), dt,
                                     update(state, dt))
  /\ ticks' = ticks + 1
  /\ UNCHANGED << playerCount, nextId, orders, incomes, waves, query, route, net,
                  sincePlan >>

StrikeSpec == StrikeInit /\ [][StrikeTick]_vars

\* ------------------------------------------------------------ a wall out of reach
\* a session of one player in which p1, after three passive incomes, built a
\* house on tile (11, 52) and walls on the three tiles at its corner towards
\* the enemy, and a zombie of the first wave has walked up to (zx, zy) in tile
\* (16, 47): its last path is used up and the next one is due
Drift(zx, zy) ==
  LET income == passiveIncome(passiveIncome(passiveIncome(createInitialState(1))))
      built == walled(income, << <<1250, 5150>>, <<1250, 5250>>, <<1150, 5150>> >>, 1)
      housed == buildHouse(built, "p1", 1150, 5250, FirstGeneratedId + 3)
      zombie == [ Entity(FirstGeneratedId + 4, "ZOMBIE", zx, zy, zombieHp(1), 40,
                         "enemy", zombieDamage(1), 80, 80, "")
                    EXCEPT !.targetId = 1,
                           !.pathCooldown = 20 ]
  IN  [ housed EXCEPT !.entities = Append(@, zombie) ]

\* where the zombie stands: in tile (16, 47), with the wall on tile (12, 51)
\* 4.98, 4.99 and 5.09 tiles away and 5.66 tiles from the centre of the tile;
\* or in tile (13, 51), 1.47 tiles from that wall, whose tile is the next one
DriftStarts == { <<1602, 4798>>, <<1603, 4797>>, <<1610, 4790>>, <<1390, 5195>> }

\* the fighters of es, by position in the list
fighters(es) == { k \in 1..Len(es) : es[k].type \in {"UNIT", "ZOMBIE"} }

\* the records of the plannings at the start: what is left of pathCooldown
\* tells how long ago the last planning was, at the least
planRecords(es) ==
  [ id \in { es[k].id : k \in fighters(es) } |->
      LET e == es[CHOOSE k \in fighters(es) : es[k].id = id]
      IN  [ time |-> PATH_RECALC_INTERVAL - e.pathCooldown, reset |-> FALSE,
            gap |-> PATH_RECALC_INTERVAL, hurried |-> FALSE ] ]

\* the callback of entity i set pathCooldown to 0 where it was not yet due
resetIn(trace, i, dt, allPlayerIds) ==
  /\ trace[i + 1][i].pathCooldown = 0
  /\ (plansIn(trace[i], i, dt, allPlayerIds) \/ trace[i][i].pathCooldown > dt)

\* the records after the pass trace of a tick of dt over es that left st
plannedSince(since, es, trace, dt, st) ==
  [ id \in { st.entities[k].id : k \in fighters(st.entities) } |->
      LET i == CHOOSE k \in fighters(es) : es[k].id = id
          was == since[id]
      IN  IF plansIn(trace[i], i, dt, DOMAIN st.players)
          THEN [ time |-> 0,
                 reset |-> resetIn(trace, i, dt, DOMAIN st.players),
                 gap |-> Min(PATH_RECALC_INTERVAL, was.time + dt),
                 hurried |-> was.reset ]
          ELSE [ was EXCEPT !.time = Min(PATH_RECALC_INTERVAL, @ + dt),
                            !.reset = @ \/ resetIn(trace, i, dt, DOMAIN st.players) ] ]

\* the points p1 clicks to build a house: they snap to tiles (16, 49), (14, 47)
DriftClicks == { <<1660, 4940>>, <<1450, 4750>> }

DriftInit ==
  /\ playerCount = 1
  /\ \E start \in DriftStarts : state = Drift(start[1], start[2])
  /\ nextId = FirstGeneratedId + 5
  /\ orders = 0
  /\ ticks = 0
  /\ incomes = 0
  /\ waves = 0
  /\ query = << >>
  /\ route = << >>
  /\ NoNet
  /\ sinceStrike = << >>
  /\ sincePlan = planRecords(state.entities)

\* an animation frame, short or long
DriftTick ==
  /\ ticks < MaxTicks
  /\ \E dt \in ShortDeltaTimes \cup DeltaTimes :
       /\ state' = update(state, dt)
       /\ sincePlan' = plannedSince(sincePlan, state.entities, passOf(state, dt), dt,
                                   update(state, dt))
  /\ ticks' = ticks + 1
  /\ UNCHANGED << playerCount, nextId, orders, incomes, waves, query, route, net, sinceStrike >>

\* p1 picks the house and clicks a tile
DriftBuild ==
  /\ orders < MaxOrders
  /\ \E c \in DriftClicks : Command(buildHouse(state, "p1", c[1], c[2], nextId))

DriftNext == DriftTick \/ DriftBuild

DriftSpec == DriftInit /\ [][DriftNext]_vars

\* ------------------------------------------------------------ the lobby
\* the host's App and NetworkManager after handleHostGame: the host is in the
\* lobby as p1, and nobody has joined
Hosting ==
  [ isPlaying |-> FALSE,
    isInLobby |-> TRUE,
    lobbyPlayers |-> << "p1" >>,
    connections |-> { },
    peerToPlayer |-> { },
    nextPlayerId |-> 2,
    callbacks |-> { },
    infos |-> { } ]

\* the peers that have an entry in peerToPlayer
assignedPeers(a) == { pair[1] : pair \in a.peerToPlayer }

\* networkManager.getPlayerIdForPeer(peerId), "" for undefined
getPlayerIdForPeer(a, peerId) ==
  IF peerId \in assignedPeers(a)
  THEN (CHOOSE pair \in a.peerToPlayer : pair[1] = peerId)[2]
  ELSE ""

\* networkManager.assignPlayerToPeer(peerId)
assignPlayerToPeer(a, peerId) ==
  [ a EXCEPT !.peerToPlayer = { pair \in @ : pair[1] # peerId }
                                \cup { << peerId, PlayerIds[a.nextPlayerId] >> },
             !.nextPlayerId = @ + 1 ]

\* the playerInfo branch of the onMessage callback of App, on the host
onPlayerInfo(a, peerId) ==
  LET playerId == getPlayerIdForPeer(a, peerId)
      others == SelectSeq(a.lobbyPlayers, LAMBDA id : id # playerId)
  IN  IF playerId = "" THEN a
      ELSE [ a EXCEPT !.lobbyPlayers = Append(others, playerId) ]

RECURSIVE startMessages(_, _, _)
\* networkManager.sendToEachPeer of handleStartMultiplayerGame: the startGame
\* messages for the peers from the k-th player id on, in the order of
\* peerToPlayer, which is that of the player ids; sendToPeer sends nothing to a
\* peer whose connection is closed
startMessages(a, k, totalPlayers) ==
  IF k >= a.nextPlayerId THEN << >>
  ELSE LET sent == { pair \in a.peerToPlayer :
                       pair[2] = PlayerIds[k] /\ pair[1] \in a.connections }
           message(pair) ==
             [ to |-> pair[1],
               message |-> sendAction([ action |-> "startGame",
                                        playerCount |-> totalPlayers,
                                        playerId |-> pair[2] ]) ]
       IN  (IF sent = { } THEN << >> ELSE << message(CHOOSE pair \in sent : TRUE) >>)
           \o startMessages(a, k + 1, totalPlayers)

\* the host waits in the lobby of the room it has just opened
LobbyInit ==
  /\ playerCount = 1
  /\ state = createInitialState(playerCount)
  /\ app = Hosting
  /\ guest = << >>
  /\ wire = << >>
  /\ intents = << >>
  /\ hostHad = { }
  /\ nextId = FirstGeneratedId
  /\ orders = 0
  /\ ticks = 0
  /\ incomes = 0
  /\ waves = 0
  /\ query = << >>
  /\ route = << >>
  /\ sinceStrike = << >>
  /\ sincePlan = << >>

\* what the lobby leaves alone
lobbyFrame == << nextId, orders, ticks, incomes, waves, query, route, guest, hostHad,
                sinceStrike, sincePlan >>

\* a guest joins: handleNewConnection stores the connection and sets the
\* timeout of the connection callback, and handleJoinGame of the guest sets the
\* timeout that sends its playerInfo
PeerConnects ==
  /\ app.isInLobby
  /\ \E k \in 1..Len(Peers) :
       /\ Peers[k] \notin app.callbacks \cup assignedPeers(app) \cup app.connections
       /\ app' = [ app EXCEPT !.connections = @ \cup { Peers[k] },
                              !.callbacks = @ \cup { Peers[k] },
                              !.infos = @ \cup { Peers[k] } ]
  /\ UNCHANGED << state, playerCount, wire, intents, lobbyFrame >>

\* the connection callback of App runs on the host, 50 ms after the connection
\* was made (also when the connection was closed since)
ConnectionCallback ==
  /\ app.isInLobby
  /\ \E peerId \in app.callbacks :
       app' = [ assignPlayerToPeer(app, peerId) EXCEPT !.callbacks = @ \ { peerId } ]
  /\ UNCHANGED << state, playerCount, wire, intents, lobbyFrame >>

\* the timeout of a guest sends its playerInfo, 500 ms after it joined:
\* broadcast sends on open connections only
PlayerInfoSent ==
  /\ app.isInLobby
  /\ \E peerId \in app.infos \cap app.connections :
       /\ intents' = Append(intents, [ from |-> peerId,
                                       message |-> sendAction([ action |-> "playerInfo" ]) ])
       /\ app' = [ app EXCEPT !.infos = @ \ { peerId } ]
  /\ UNCHANGED << state, playerCount, wire, lobbyFrame >>

\* a playerInfo message reaches the host (the connections of the peers deliver
\* independently of each other)
PlayerInfoReceived ==
  /\ app.isInLobby
  /\ \E k \in 1..Len(intents) :
       /\ app' = onPlayerInfo(app, intents[k].from)
       /\ intents' = RemoveAt(intents, k)
  /\ UNCHANGED << state, playerCount, wire, lobbyFrame >>

\* the connection of a guest closes: the close handler of handleNewConnection
\* deletes it from connections, and the disconnect callback of App only counts
PeerDisconnects ==
  /\ app.isInLobby
  /\ \E peerId \in app.connections :
       app' = [ app EXCEPT !.connections = @ \ { peerId } ]
  /\ UNCHANGED << state, playerCount, wire, intents, lobbyFrame >>

\* handleStartMultiplayerGame; the button is enabled with two lobby players
StartMultiplayerGame ==
  /\ app.isInLobby
  /\ Len(app.lobbyPlayers) >= 2
  /\ LET totalPlayers == Len(app.lobbyPlayers)
     IN  /\ state' = createInitialState(totalPlayers)
         /\ playerCount' = totalPlayers
         /\ wire' = wire \o startMessages(app, 2, totalPlayers)
  /\ app' = [ app EXCEPT !.isInLobby = FALSE, !.isPlaying = TRUE ]
  /\ UNCHANGED << intents, lobbyFrame >>

LobbyNext ==
  \/ PeerConnects
  \/ ConnectionCallback
  \/ PlayerInfoSent
  \/ PlayerInfoReceived
  \/ PeerDisconnects
  \/ StartMultiplayerGame

LobbySpec == LobbyInit /\ [][LobbyNext]_vars

\* ------------------------------------------------------------ the end of play
\* a session of two close to its end: the host's engine holds a siege, and the
\* guest has received the snapshot of it
GameEndInit ==
  /\ playerCount = 2
  /\ \E baseHits \in BaseHits, enemyHits \in EnemyHits :
       state = Siege(playerCount, baseHits, enemyHits)
  /\ guest = state
  /\ wire = << >>
  /\ intents = << >>
  /\ hostHad = { state }
  /\ app = Playing(playerCount)
  /\ nextId = FirstGeneratedId
  /\ orders = 0
  /\ ticks = 0
  /\ incomes = 0
  /\ waves = 0
  /\ query = << >>
  /\ route = << >>
  /\ sinceStrike = << >>
  /\ sincePlan = << >>

\* the UI poll interval of App fires on the host: it copies the player for the
\* display and, when the game is over, ends play with setIsPlaying(false); the
\* cleanup of the effects then clears the sync interval and the poll itself, and
\* GameCanvas is unmounted; the step is the poll together with the commit that
\* follows it, in the order where no sync timer fires between the two
UiPoll ==
  /\ app.isPlaying
  /\ app' = IF state.gameOver THEN [ app EXCEPT !.isPlaying = FALSE ] ELSE app
  /\ UNCHANGED << state, playerCount, nextId, orders, ticks, incomes, waves, query, route,
                  guest, wire, intents, hostHad, sinceStrike, sincePlan >>

GameEndNext ==
  \/ HostFrame
  \/ HostSync
  \/ UiPoll
  \/ GuestReceives

\* every interval that is set fires again and again, and a message that was
\* sent arrives
GameEndSpec ==
  /\ GameEndInit
  /\ [][GameEndNext]_vars
  /\ WF_vars(HostSync)
  /\ WF_vars(UiPoll)
  /\ WF_vars(GuestReceives)

\* ------------------------------------------------------------ properties
\* who may call, in the properties: every player of the session and a stranger
Callers == DOMAIN state.players \cup { "p9" }

\* the (x, y) the properties try a build at
ProbePoints ==
  ClickPoints \cup
  { <<1500, 4900>>,   \* tile (15, 49), within 8 tiles of the bases of p1 and p2
    <<1299, 5299>>,   \* the far corner of tile (12, 52)
    <<1200, 5200>>,   \* the near corner of tile (12, 52)
    <<1750, 5450>>,   \* tile (17, 54): 7.5 tiles from the base of p1
    <<1850, 5450>>,   \* tile (18, 54): 8.5 tiles from the base of p1
    <<5450, 1250>>,   \* beside the enemy base
    <<6399, 0>> }     \* a map corner

\* the ring points the properties try a spawn at
ProbeOffsets == RingOffsets \cup { <<2 * Scale, 0>>, <<0, -2 * Scale>> }

entitiesOfType(st, type) ==
  { i \in 1..Len(st.entities) : st.entities[i].type = type }

\* the centre of the tile that holds v
tileCentreOf(v) == (v \div Scale) * Scale + Scale \div 2

\* st2 is st with exactly one entity appended and the players in ps changed
\* at most
appendsOne(st, st2, ps) ==
  /\ Len(st2.entities) = Len(st.entities) + 1
  /\ SubSeq(st2.entities, 1, Len(st.entities)) = st.entities
  /\ DOMAIN st2.players = DOMAIN st.players
  /\ \A q \in DOMAIN st.players \ ps : st2.players[q] = st.players[q]
  /\ st2.gameOver = st.gameOver
  /\ st2.winner = st.winner
  /\ st2.waveNumber = st.waveNumber

\* C1: an update that starts with gameOver false ends with ZOMBIES the winner
\* when no BASE is left (the enemy base gone in the same tick or not), else
\* with PLAYERS the winner when the enemy base is gone, else with the game on
\* and no winner.
afterUpdate(st) ==
  IF entitiesOfType(st, "BASE") = {}
  THEN st.gameOver /\ st.winner = "ZOMBIES"
  ELSE IF \A i \in 1..Len(st.entities) : st.entities[i].id # EnemyBaseId
  THEN st.gameOver /\ st.winner = "PLAYERS"
  ELSE ~st.gameOver /\ st.winner = ""

C1_WinCondition ==
  [][ (ticks' = ticks + 1 /\ ~state.gameOver) => afterUpdate(state') ]_vars

\* four players, every base destroyed, the enemy base standing
C1_Witness ==
  /\ playerCount = 4
  /\ ticks > 0
  /\ entitiesOfType(state, "BASE") = {}
  /\ entitiesOfType(state, "ENEMY_BASE") # {}
  /\ state.gameOver
  /\ state.winner = "ZOMBIES"

\* C2: once gameOver is true it stays true and winner keeps its value, whatever
\* operation follows; a winner once named is never replaced by the other.
C2_GameOverIsFinal ==
  [][ /\ state.gameOver => (state'.gameOver /\ state'.winner = state.winner)
      /\ state.winner # "" => state'.winner = state.winner ]_vars

\* the game is over and a unit spawned since then stands untouched on its ring
C2_Witness ==
  /\ state.gameOver
  /\ state.winner = "PLAYERS"
  /\ \E i \in entitiesOfType(state, "UNIT") :
       /\ state.entities[i].id >= FirstGeneratedId
       /\ state.entities[i].targetId = NoId
       /\ state.entities[i].attackCooldown = 0

\* C3: spawnUnit by a known, undefeated player with the gold and the room takes
\* exactly the cost, adds exactly 1 to currentPop, appends exactly one UNIT of
\* that player with hp = maxHp = the type's hp, and changes nothing else.
C3_SpawnUnitSucceeds ==
  \A p \in DOMAIN state.players, t \in DOMAIN UNIT_TYPES, off \in ProbeOffsets :
    LET player == state.players[p]
        st2 == spawnUnit(state, p, t, off, nextId)
        unit == st2.entities[Len(st2.entities)]
    IN  (~player.defeated /\ player.gold >= UNIT_TYPES[t].cost
         /\ player.currentPop < player.maxPop)
        => /\ appendsOne(state, st2, { p })
           /\ st2.players[p] = [ player EXCEPT !.gold = @ - UNIT_TYPES[t].cost,
                                               !.currentPop = @ + 1 ]
           /\ unit.type = "UNIT"
           /\ unit.ownerId = p
           /\ unit.hp = UNIT_TYPES[t].hp
           /\ unit.maxHp = UNIT_TYPES[t].hp

\* a tank bought from the opening 100 gold
C3_Witness ==
  \E p \in DOMAIN state.players :
    /\ state.players[p].gold = 100 - UNIT_TYPES["TANK"].cost
    /\ state.players[p].currentPop = 1
    /\ \E i \in entitiesOfType(state, "UNIT") :
         /\ state.entities[i].ownerId = p
         /\ state.entities[i].unitType = "TANK"
         /\ state.entities[i].hp = UNIT_TYPES["TANK"].hp
         /\ state.entities[i].id >= FirstGeneratedId

\* C4: spawnUnit changes nothing when the caller is no player, is defeated, has
\* less gold than the cost, or is at the population cap.
C4_SpawnUnitNoOp ==
  \A p \in Callers, t \in DOMAIN UNIT_TYPES, off \in ProbeOffsets :
    (\/ p \notin DOMAIN state.players
     \/ state.players[p].defeated
     \/ state.players[p].gold < UNIT_TYPES[t].cost
     \/ state.players[p].currentPop >= state.players[p].maxPop)
    => spawnUnit(state, p, t, off, nextId) = state

\* one player is defeated and another stands at the population cap
C4_Witness ==
  /\ ~state.gameOver
  /\ \E p \in DOMAIN state.players : state.players[p].defeated
  /\ \E q \in DOMAIN state.players :
       /\ ~state.players[q].defeated
       /\ state.players[q].currentPop >= state.players[q].maxPop

\* C5: buildHouse, buildMine and buildWall change nothing when the caller is
\* no player or is defeated, has less gold than the cost, an entity lies within
\* the occupancy tolerance of the snapped tile centre, the snapped tile is
\* invalid terrain, or (house and mine) the snapped tile is farther than the
\* build radius from the caller's base.
buildRefused(p, sx, sy, cost, radiusApplies) ==
  \/ p \notin DOMAIN state.players
  \/ state.players[p].defeated
  \/ state.players[p].gold < cost
  \/ occupied(state, sx, sy)
  \/ ~isValidTerrain(sx, sy)
  \/ radiusApplies /\ ~withinBuildRadius(state.players[p], sx, sy)

C5_BuildNoOp ==
  \A p \in Callers, c \in ProbePoints :
    LET sx == tileCentreOf(c[1])
        sy == tileCentreOf(c[2])
    IN  /\ buildRefused(p, sx, sy, houseCost, TRUE)
           => buildHouse(state, p, c[1], c[2], nextId) = state
        /\ buildRefused(p, sx, sy, MINE_COST, TRUE)
           => buildMine(state, p, c[1], c[2], nextId) = state
        /\ buildRefused(p, sx, sy, WALL_COST, FALSE)
           => buildWall(state, p, c[1], c[2], nextId) = state

\* a player with 250 gold or more and an entity on a tile a build is tried at
C5_Witness ==
  /\ \E p \in DOMAIN state.players :
       ~state.players[p].defeated /\ state.players[p].gold >= MINE_COST
  /\ \E c \in ClickPoints : occupied(state, tileCentreOf(c[1]), tileCentreOf(c[2]))
  /\ \E q \in DOMAIN state.players : state.players[q].gold < houseCost

\* C6: buildHouse by an undefeated player with 50 gold or more, for a tile that
\* is free, valid terrain and within the build radius, takes exactly 50 gold,
\* adds exactly 5 to maxPop and appends exactly one HOUSE of that player at the
\* centre of the tile that holds (x, y).
C6_BuildHouseSucceeds ==
  \A p \in DOMAIN state.players, c \in ProbePoints :
    LET player == state.players[p]
        cx == tileCentreOf(c[1])
        cy == tileCentreOf(c[2])
        st2 == buildHouse(state, p, c[1], c[2], nextId)
        house == st2.entities[Len(st2.entities)]
    IN  (~player.defeated /\ player.gold >= 50 /\ ~occupied(state, cx, cy)
         /\ isValidTerrain(cx, cy) /\ withinBuildRadius(player, cx, cy))
        => /\ appendsOne(state, st2, { p })
           /\ st2.players[p] = [ player EXCEPT !.gold = @ - 50, !.maxPop = @ + 5 ]
           /\ house.type = "HOUSE"
           /\ house.ownerId = p
           /\ house.x = cx
           /\ house.y = cy

\* a player who had 100 gold holds 50 and a house on tile (12, 52)
C6_Witness ==
  \E p \in DOMAIN state.players :
    /\ state.players[p].gold = 50
    /\ state.players[p].maxPop = 10
    /\ \E i \in entitiesOfType(state, "HOUSE") :
         /\ state.entities[i].ownerId = p
         /\ state.entities[i].x = 1250
         /\ state.entities[i].y = 5250

\* C7: buildWall succeeds on every free tile of valid terrain at any distance
\* from the base of an undefeated caller with the gold, and no HOUSE or MINE
\* stands farther than BUILD_RADIUS from the base of its owner.
C7_RadiusBindsHousesAndMines ==
  /\ \A p \in DOMAIN state.players, c \in ProbePoints :
       LET player == state.players[p]
           cx == tileCentreOf(c[1])
           cy == tileCentreOf(c[2])
           st2 == buildWall(state, p, c[1], c[2], nextId)
           wall == st2.entities[Len(st2.entities)]
       IN  (~player.defeated /\ player.gold >= WALL_COST /\ ~occupied(state, cx, cy)
            /\ isValidTerrain(cx, cy))
           => /\ appendsOne(state, st2, { p })
              /\ st2.players[p] = [ player EXCEPT !.gold = @ - WALL_COST ]
              /\ wall.type = "WALL"
              /\ wall.ownerId = p
  /\ \A i \in entitiesOfType(state, "HOUSE") \cup entitiesOfType(state, "MINE") :
       LET e == state.entities[i]
           base == state.players[e.ownerId].basePosition
       IN  DistSq(e.x, e.y, base[1], base[2])
             <= (BUILD_RADIUS * Scale) * (BUILD_RADIUS * Scale)

\* a wall stands farther than BUILD_RADIUS from the base of its owner
C7_Witness ==
  \E i \in entitiesOfType(state, "WALL") :
    LET e == state.entities[i]
        base == state.players[e.ownerId].basePosition
    IN  DistSq(e.x, e.y, base[1], base[2]) > (BUILD_RADIUS * Scale) * (BUILD_RADIUS * Scale)

\* C8: the gold of every player is >= 0 in every reachable state.
C8_GoldNonNegative ==
  \A p \in DOMAIN state.players : state.players[p].gold >= 0

\* a player has spent the last gold on a mine
C8_Witness ==
  \E p \in DOMAIN state.players :
    /\ state.players[p].gold = 0
    /\ \E i \in entitiesOfType(state, "MINE") : state.entities[i].ownerId = p

\* C9: currentPop of every player is the number of UNIT entities the player
\* owns, after every operation.
unitsOf(st, p) ==
  { i \in entitiesOfType(st, "UNIT") : st.entities[i].ownerId = p }

C9_PopCountsUnits ==
  \A p \in DOMAIN state.players :
    state.players[p].currentPop = Cardinality(unitsOf(state, p))

\* a soldier of the siege has died and the others stand
C9_Witness ==
  \E p \in DOMAIN state.players :
    /\ state.players[p].currentPop > 0
    /\ \E k \in 21..24 : \A i \in unitsOf(state, p) : state.entities[i].id # k
    /\ \E i \in unitsOf(state, p) : state.entities[i].id \in 21..24

\* C10: currentPop of every player is >= 0, however many units have died.
C10_PopNonNegative ==
  \A p \in DOMAIN state.players : state.players[p].currentPop >= 0

\* two units of one player died in one tick
C10_Witness ==
  /\ ticks = 1
  /\ \E p \in DOMAIN state.players :
       /\ state.players[p].currentPop = 2
       /\ Cardinality({ k \in 21..24 :
                          \E i \in unitsOf(state, p) : state.entities[i].id = k }) = 2

\* ------------------------------------------------------------ health
\* C11: every entity of the list has hp <= maxHp, in every reachable state
C11_HpAtMostMaxHp ==
  \A k \in 1..Len(state.entities) : state.entities[k].hp <= state.entities[k].maxHp

\* a session of four players after a volley of the four soldiers on the enemy
\* base and a wave: a spawned zombie at full health, a struck building below it
C11_Witness ==
  /\ playerCount = 4 /\ ticks = 1 /\ waves = 1
  /\ \E k \in 1..Len(state.entities) :
       /\ state.entities[k].type = "ZOMBIE" /\ state.entities[k].id >= FirstGeneratedId
       /\ state.entities[k].hp = state.entities[k].maxHp
       /\ state.entities[k].hp = zombieHp(4)
  /\ \E k \in 1..Len(state.entities) :
       /\ state.entities[k].id = EnemyBaseId
       /\ state.entities[k].hp = 40 * 3 - 4 * UNIT_TYPES["SOLDIER"].damage
       /\ state.entities[k].hp < state.entities[k].maxHp

\* C12: no entity of the list has hp <= 0 once update has returned, so none is
\* there at the start of a tick or when a command or a timer runs
C12_NoDeadEntityLeft ==
  \A k \in 1..Len(state.entities) : state.entities[k].hp > 0

\* a tick of a session of two players in which the base of p2 fell and was swept
\* while the base of p1 stands
C12_Witness ==
  /\ playerCount = 2 /\ ticks = 1
  /\ state.players["p2"].defeated /\ ~state.players["p1"].defeated
  /\ \E k \in 1..Len(state.entities) : state.entities[k].id = 1
  /\ \A k \in 1..Len(state.entities) : state.entities[k].id # 2

\* ------------------------------------------------------------ defeat
\* every spawnUnit and build call of player p leaves st as it is
commandsRefused(st, p, id) ==
  /\ \A t \in DOMAIN UNIT_TYPES, off \in ProbeOffsets : spawnUnit(st, p, t, off, id) = st
  /\ \A c \in ProbePoints :
       /\ buildHouse(st, p, c[1], c[2], id) = st
       /\ buildMine(st, p, c[1], c[2], id) = st
       /\ buildWall(st, p, c[1], c[2], id) = st

\* C13: a player whose defeated flag is true keeps it true through every
\* operation (tick, command, income, wave), and the spawnUnit and build calls of
\* that player change nothing, before the operation and after it
C13_DefeatIsPermanent ==
  [][ \A p \in DOMAIN state.players :
        state.players[p].defeated
          => /\ commandsRefused(state, p, nextId)
             /\ state'.players[p].defeated
             /\ commandsRefused(state', p, nextId') ]_vars

\* two players: the base of p2 fell in the first tick, a second tick followed
\* (the zombie that struck is halfway through its cooldown), p1 plays on
C13_Witness ==
  /\ playerCount = 2 /\ ticks = 2 /\ ~state.gameOver
  /\ state.players["p2"].defeated /\ ~state.players["p1"].defeated
  /\ state.players["p2"].gold >= houseCost
  /\ \E k \in 1..Len(state.entities) :
       state.entities[k].id = 12 /\ state.entities[k].attackCooldown = 50

\* ------------------------------------------------------------ bounty
\* the entities as the pass over them leaves them, before the sweep
fought(st, dt) ==
  forEachEntity(st.entities, 1, dt, DOMAIN st.players,
                buildBlockedTiles(st.entities, {}),
                buildBlockedTiles(st.entities, {"ENEMY_BASE"}))

\* es: the entities before the sweep.  Every zombie of es with no hp left is
\* gone from st2, and the gold of every player grew from st to st2 by 10 for
\* each such zombie that player struck last, unless the player was defeated
\* when the sweep came to the zombie (before the tick, or by a base that fell
\* earlier in the list)
bountyPaid(st, st2, es) ==
  LET deadZombies == { k \in 1..Len(es) : es[k].type = "ZOMBIE" /\ es[k].hp <= 0 }
      defeatedAt(p, k) ==
        \/ st.players[p].defeated
        \/ \E j \in 1..(k - 1) : es[j].type = "BASE" /\ es[j].ownerId = p /\ es[j].hp <= 0
      paid(p) == { k \in deadZombies : es[k].lastAttackerId = p /\ ~defeatedAt(p, k) }
  IN  /\ \A k \in deadZombies :
           \A j \in 1..Len(st2.entities) : st2.entities[j].id # es[k].id
      /\ \A p \in DOMAIN st.players :
           st2.players[p].gold = st.players[p].gold + 10 * Cardinality(paid(p))

tileOf(p) == << p[1] \div Scale, p[2] \div Scale >>

startTile == tileOf(<< query[1].startX, query[1].startY >>)

goalTile == tileOf(<< query[1].goalX, query[1].goalY >>)

\* one step in one of the 8 directions
adjacentTiles(a, b) ==
  a # b /\ Abs(a[1] - b[1]) <= 1 /\ Abs(a[2] - b[2]) <= 1

inMap(t) == t[1] >= 0 /\ t[1] < MAP_SIZE /\ t[2] >= 0 /\ t[2] < MAP_SIZE

onTerrain(t) == inMap(t) /\ isValidTerrain(t[1] * Scale, t[2] * Scale)

\* the waypoints are tile centres, one adjacency step apart
stepwise(path) ==
  /\ \A j \in 1..Len(path) : path[j] = tileCenter(tileOf(path[j]))
  /\ \A j \in 1..(Len(path) - 1) : adjacentTiles(tileOf(path[j]), tileOf(path[j + 1]))

\* the waypoints from the first-th on are on terrain and, the last one aside,
\* off the blocked tiles
clearFrom(path, first, blockedTiles) ==
  \A j \in first..Len(path) :
    /\ onTerrain(tileOf(path[j]))
    /\ (tileOf(path[j]) \notin blockedTiles \/ j = Len(path))

\* C15 as stated: every waypoint of a returned path, the first included, is on
\* valid terrain and (the goal aside) off the blocked tiles, and consecutive
\* waypoints are one adjacency step apart
C15_PathValidFromStart ==
  (query # << >> /\ route # << >>)
    => stepwise(route) /\ clearFrom(route, 1, query[1].blockedTiles)

\* C15, amended: consecutive waypoints of a returned path are tile centres one
\* 8-directional step apart, and every waypoint after the first is on valid
\* terrain and off the blocked tiles, the goal tile alone being allowed on them;
\* the first waypoint is the start tile, which findPath does not test
C15_PathValidAfterStart ==
  (query # << >> /\ route # << >>)
    => stepwise(route) /\ clearFrom(route, 2, query[1].blockedTiles)

\* a path from tile (12, 51) into the blocked tile of the base of p1 that passes
\* by the wall on tile (11, 52)
C15_Witness ==
  /\ query # << >> /\ Len(route) >= 4
  /\ startTile = <<12, 51>> /\ goalTile = <<10, 54>>
  /\ <<11, 52>> \in query[1].blockedTiles
  /\ goalTile \in query[1].blockedTiles
  /\ tileOf(route[Len(route)]) = goalTile

\* every one of the 8 tiles around the start tile is off the terrain or blocked
startEnclosed ==
  \A k \in 1..Len(neighbors) :
    LET t == << startTile[1] + neighbors[k][1], startTile[2] + neighbors[k][2] >>
    IN  ~onTerrain(t) \/ t \in query[1].blockedTiles

\* C16 as stated: with every tile around the start tile blocked or invalid
\* terrain, findPath returns null whatever the goal
C16_EnclosedStartNoPathAnyGoal ==
  (query # << >> /\ startEnclosed) => route = << >>

\* C16, amended: with every tile around the start tile blocked or invalid
\* terrain, findPath returns null for every goal tile other than the start tile
\* itself and the adjacent tiles on valid terrain (a blocked goal tile is
\* entered all the same)
C16_EnclosedStartNoPath ==
  (/\ query # << >>
   /\ startEnclosed
   /\ goalTile # startTile
   /\ ~(adjacentTiles(startTile, goalTile) /\ onTerrain(goalTile)))
    => route = << >>

\* the search from the map-edge tile (0, 45), closed off by four walls, for
\* the base of p1: no path
C16_Witness ==
  /\ query # << >> /\ route = << >>
  /\ startTile = <<0, 45>> /\ goalTile = <<10, 54>>
  /\ startEnclosed
  /\ { <<1, 45>>, <<0, 46>>, <<1, 46>>, <<1, 44>> } \subseteq query[1].blockedTiles

\* a tile a walk may step on: on the terrain and, unless it is the goal, off the
\* blocked tiles
mayEnter(t, goal, blockedTiles) ==
  onTerrain(t) /\ (t = goal \/ t \notin blockedTiles)

\* one more layer around the tiles reached so far; s = [seen, frontier]
floodStep(s, goal, blockedTiles) ==
  LET next == { t \in { << f[1] + neighbors[k][1], f[2] + neighbors[k][2] >> :
                          f \in s.frontier, k \in 1..Len(neighbors) } :
                  t \notin s.seen /\ mayEnter(t, goal, blockedTiles) }
  IN  [ seen |-> s.seen \cup next, frontier |-> next ]

RECURSIVE flood(_, _, _, _)
\* up to n layers, until the goal is reached or no tile is new
flood(s, goal, blockedTiles, n) ==
  IF goal \in s.seen \/ s.frontier = {} \/ n = 0 THEN s
  ELSE IF n = 1 THEN floodStep(s, goal, blockedTiles)
  ELSE flood(flood(s, goal, blockedTiles, n \div 2), goal, blockedTiles, n - n \div 2)

\* the goal tile can be walked to from the start tile in 8-directional steps
reachable(start, goal, blockedTiles) ==
  goal \in flood([ seen |-> { start }, frontier |-> { start } ], goal, blockedTiles,
                 MAP_SIZE * MAP_SIZE).seen

\* the while-loop of the call ends by itself: the goal is popped or the open
\* set runs empty
searchEnds == searchOver(search(startTile, goalTile, query[1].blockedTiles))

\* C17: a findPath call with a blocked-tile set ends, and it returns a path
\* exactly when the goal tile can be reached from the start tile by
\* 8-directional steps over tiles that are in bounds, valid terrain and not
\* blocked, the goal tile alone being exempt from the blocked set; the path
\* runs from the centre of the start tile to the centre of the goal tile
C17_PathIffReachable ==
  query # << >>
    => /\ searchEnds
       /\ (route # << >>) <=> reachable(startTile, goalTile, query[1].blockedTiles)
       /\ route # << >>
            => /\ route[1] = tileCenter(startTile)
               /\ route[Len(route)] = tileCenter(goalTile)

\* no path from tile (13, 50) to the tile (0, 45) that four walls close off,
\* with the walls in the blocked set
C17_Witness ==
  /\ query # << >> /\ route = << >>
  /\ startTile = <<13, 50>> /\ goalTile = <<0, 45>>
  /\ { <<1, 45>>, <<0, 46>>, <<1, 46>>, <<1, 44>> } \subseteq query[1].blockedTiles
  /\ onTerrain(goalTile) /\ goalTile \notin query[1].blockedTiles

RECURSIVE costFrom(_, _, _)
\* the costs of the steps lo..hi of a path, step j leading from waypoint j to
\* waypoint j + 1, in tenths: 10 for an orthogonal step, 14 for a diagonal one
costFrom(path, lo, hi) ==
  IF lo > hi THEN 0
  ELSE IF lo = hi
  THEN (IF path[lo][1] = path[lo + 1][1] \/ path[lo][2] = path[lo + 1][2] THEN 10 ELSE 14)
  ELSE costFrom(path, lo, (lo + hi) \div 2) + costFrom(path, (lo + hi) \div 2 + 1, hi)

pathCost(path) == costFrom(path, 1, Len(path) - 1)

\* the least of a set of numbers
least(S) == CHOOSE m \in S : \A v \in S : m <= v

\* one round of relaxation from the tiles improved last; s = [dist, frontier],
\* dist the cheapest cost found so far of the tiles that cost less than bound
cheapenStep(s, goal, blockedTiles, bound) ==
  LET offers == { o \in { << << f[1] + neighbors[k][1], f[2] + neighbors[k][2] >>,
                             s.dist[f] + (IF neighbors[k][1] = 0 \/ neighbors[k][2] = 0
                                          THEN 10 ELSE 14) >> :
                            f \in s.frontier, k \in 1..Len(neighbors) } :
                    /\ o[2] < bound
                    /\ mayEnter(o[1], goal, blockedTiles)
                    /\ (o[1] \notin DOMAIN s.dist \/ o[2] < s.dist[o[1]]) }
      improved == { o[1] : o \in offers }
  IN  [ dist |-> [ t \in DOMAIN s.dist \cup improved |->
                     IF t \in improved THEN least({ o[2] : o \in { p \in offers : p[1] = t } })
                     ELSE s.dist[t] ],
        frontier |-> improved ]

RECURSIVE cheapen(_, _, _, _, _)
\* up to n rounds, until no tile improves
cheapen(s, goal, blockedTiles, bound, n) ==
  IF s.frontier = {} \/ n = 0 THEN s
  ELSE IF n = 1 THEN cheapenStep(s, goal, blockedTiles, bound)
  ELSE cheapen(cheapen(s, goal, blockedTiles, bound, n \div 2), goal, blockedTiles, bound,
               n - n \div 2)

\* some walk from start to goal costs less than bound
cheaperWalk(start, goal, blockedTiles, bound) ==
  /\ bound > 0
  /\ goal \in DOMAIN cheapen([ dist |-> (start :> 0), frontier |-> { start } ], goal,
                             blockedTiles, bound, MAP_SIZE * MAP_SIZE).dist

\* C18 as stated: every path findPath returns is a shortest one, no walk from
\* the start tile to the goal tile over tiles a path may use has a lower total
\* step cost
C18_PathIsShortest ==
  (query # << >> /\ route # << >>)
    => ~cheaperWalk(startTile, goalTile, query[1].blockedTiles, pathCost(route))

\* ------------------------------------------------------------ walls in the way
\* wall w of es blocks the way of attacker i to target t: it is a live wall,
\* at most 5 tiles from the attacker, strictly closer to the attacker than the
\* target, and its centre is within its radius plus 0.75 of the segment
blocks(es, i, t, w) ==
  /\ es[w].type = "WALL" /\ es[w].hp > 0
  /\ DistSq(es[i].x, es[i].y, es[w].x, es[w].y) <= (5 * Scale) * (5 * Scale)
  /\ DistSq(es[i].x, es[i].y, es[w].x, es[w].y) < DistSq(es[i].x, es[i].y, es[t].x, es[t].y)
  /\ distancePointToSegmentSq(es[w].x, es[w].y, es[i].x, es[i].y, es[t].x, es[t].y)
       <= (es[w].radius + (3 * Scale) \div 4) * (es[w].radius + (3 * Scale) \div 4)

\* wall j is strictly nearer to attacker i than wall w
nearer(es, i, j, w) ==
  DistSq(es[i].x, es[i].y, es[j].x, es[j].y) < DistSq(es[i].x, es[i].y, es[w].x, es[w].y)

\* the zombies of es, and what a zombie may be after: the live entities of the
\* players that are no walls
zombiesOf(es) == { k \in 1..Len(es) : es[k].type = "ZOMBIE" /\ es[k].hp > 0 }

preyOf(es, allPlayerIds) ==
  { k \in 1..Len(es) : es[k].ownerId \in allPlayerIds /\ es[k].hp > 0 /\ es[k].type # "WALL" }

\* C19: findBlockingWall(attacker, target) returns a wall that blocks the way
\* (live, within 5 tiles of the attacker, strictly closer than the target,
\* centre within radius + 0.75 of the segment) and than which no other such wall
\* is strictly nearer; it returns the wall that is nearer than every other such
\* wall when there is one; and it returns none exactly when no wall blocks
C19_BlockingWallIsNearest ==
  \A i \in zombiesOf(state.entities), t \in preyOf(state.entities, DOMAIN state.players) :
    LET es == state.entities
        found == findBlockingWall(es, i, t)
        blocking == { w \in 1..Len(es) : blocks(es, i, t, w) }
    IN  /\ found = 0 <=> blocking = {}
        /\ found # 0 => /\ found \in blocking
                        /\ \A j \in blocking : ~nearer(es, i, j, found)
        /\ \A w \in blocking :
             (\A j \in blocking \ { w } : nearer(es, i, w, j)) => found = w

\* after a tick a zombie is after a wall that blocks its way to the base of p1
\* and that findBlockingWall returns, while a wall earlier in the list blocks
\* the way too and is farther
C19_Witness ==
  /\ ticks = 1
  /\ \E i \in zombiesOf(state.entities), w \in 1..Len(state.entities) :
       LET es == state.entities
       IN  /\ es[1].type = "BASE" /\ es[1].hp > 0
           /\ findBlockingWall(es, i, 1) = w
           /\ es[i].targetId = es[w].id
           /\ \E j \in 1..(w - 1) : blocks(es, i, 1, j) /\ nearer(es, i, w, j)

\* wall w of es lies on the line from zombie i to its target t: it is a live
\* wall, its centre is within its radius plus 0.75 of the segment, and it is
\* closer to the zombie than the target
onTheLine(es, i, t, w) ==
  /\ es[w].type = "WALL" /\ es[w].hp > 0
  /\ distancePointToSegmentSq(es[w].x, es[w].y, es[i].x, es[i].y, es[t].x, es[t].y)
       <= (es[w].radius + (3 * Scale) \div 4) * (es[w].radius + (3 * Scale) \div 4)
  /\ DistSq(es[i].x, es[i].y, es[w].x, es[w].y) < DistSq(es[i].x, es[i].y, es[t].x, es[t].y)

\* what zombie i of es plans when it is after t and a new path is due
planned(es, i, t) ==
  planPath(es, i, t, Max(10, es[i].speed), buildBlockedTiles(es, { "ENEMY_BASE" }))

\* the base zombie i of st is after, 0 when it is after something else
baseAfter(st, i) ==
  LET t == acquireTarget(st.entities, i, DOMAIN st.players)
  IN  IF t # 0 /\ st.entities[t].type = "BASE" THEN t ELSE 0

\* C20 as stated: when a live wall lies on the line from a zombie to the base it
\* is after, within the blocking tolerance and closer than the base, then
\* findBlockingWall returns that wall and the path the zombie plans next
\* targets the wall (targetId becomes the id of the wall)
C20_WallOnLineIsTargeted ==
  \A i \in zombiesOf(state.entities), w \in 1..Len(state.entities) :
    LET es == state.entities
        t == baseAfter(state, i)
    IN  (t # 0 /\ onTheLine(es, i, t, w))
          => /\ findBlockingWall(es, i, t) = w
             /\ planned(es, i, t).e.targetId = es[w].id

\* the zombie turns to the wall: there is no path to the target, or the path is
\* more than 1.25 times as long as the straight line, or the wall is within 2.5
\* tiles
diverts(es, i, t, w, path) ==
  \/ path = << >>
  \/ 100 * getPathLength(path) > 125 * ISqrt(DistSq(es[i].x, es[i].y, es[t].x, es[t].y))
  \/ 2 * 2 * DistSq(es[i].x, es[i].y, es[w].x, es[w].y) <= (5 * Scale) * (5 * Scale)

\* C20, amended: when moreover the wall is within 5 tiles of the zombie and
\* every other wall that blocks the way is farther from the zombie, then
\* findBlockingWall returns that wall; and the path the zombie plans next
\* targets the wall when a path to the wall exists and either there is no path
\* to the base, or that path is more than 1.25 times as long as the straight
\* line to the base, or the wall is within 2.5 tiles of the zombie
C20_NearWallOnLineIsTargeted ==
  \A i \in zombiesOf(state.entities), w \in 1..Len(state.entities) :
    LET es == state.entities
        t == baseAfter(state, i)
        blockedTiles == buildBlockedTiles(es, { "ENEMY_BASE" })
    IN  ( /\ t # 0 /\ onTheLine(es, i, t, w)
          /\ DistSq(es[i].x, es[i].y, es[w].x, es[w].y) <= (5 * Scale) * (5 * Scale)
          /\ \A j \in 1..Len(es) : (j # w /\ blocks(es, i, t, j)) => nearer(es, i, w, j) )
          => /\ findBlockingWall(es, i, t) = w
             /\ ( /\ findPath(es[i].x, es[i].y, es[w].x, es[w].y, blockedTiles) # << >>
                  /\ diverts(es, i, t, w,
                             findPath(es[i].x, es[i].y, es[t].x, es[t].y, blockedTiles)) )
                  => planned(es, i, t).e.targetId = es[w].id

\* a tick made the zombie plan: it is now after the wall on tile (11, 52), with a
\* path that ends on that tile; the wall is on the line from the zombie to the
\* base of p1, within 2.5 tiles, and no other wall blocks the way
C20_Witness ==
  /\ ticks = 1 /\ orders = 0
  /\ \E i \in zombiesOf(state.entities), w \in 1..Len(state.entities) :
       LET es == state.entities
           e == es[i]
       IN  /\ es[1].type = "BASE" /\ es[1].hp > 0
           /\ onTheLine(es, i, 1, w)
           /\ << es[w].x, es[w].y >> = <<1150, 5250>>
           /\ \A j \in 1..Len(es) : blocks(es, i, 1, j) => j = w
           /\ 2 * 2 * DistSq(e.x, e.y, es[w].x, es[w].y) <= (5 * Scale) * (5 * Scale)
           /\ e.targetId = es[w].id
           /\ e.pathCooldown = PATH_RECALC_INTERVAL
           /\ e.path # << >> /\ e.path[Len(e.path)] = << es[w].x, es[w].y >>

\* C21: isValidTerrain(x, y) is false for every point off the map, and true for
\* every point of the map less than 8 tiles from the anchor of a base: each of
\* the eight player bases createInitialState places, and the enemy base.
safeRadius == 8 * Scale

offMap(x, y) == x < 0 \/ x >= MAP_SIZE * Scale \/ y < 0 \/ y >= MAP_SIZE * Scale

nearBaseAnchor(st, x, y) ==
  \E k \in 1..Len(st.entities) :
     /\ st.entities[k].type \in { "BASE", "ENEMY_BASE" }
     /\ DistSq(x, y, st.entities[k].x, st.entities[k].y) < safeRadius * safeRadius

C21_SafeNearEveryBase ==
  query # << >>
    => LET x == query[1].x
           y == query[1].y
       IN  /\ offMap(x, y) => ~route[1]
           /\ (~offMap(x, y) /\ nearBaseAnchor(state, x, y)) => route[1]

\* C22: the state of a guest changes only when the guest applies a SYNC message
\* it received, and then every field of it is the host state the message
\* carries: frames, timers and the guest's own orders leave it alone.  So the
\* guest always holds a state the host has had.
C22_GuestFollowsSync ==
  /\ [](guest # << >> => guest \in hostHad)
  /\ [][ guest' # guest =>
           /\ wire # << >>
           /\ Head(wire).type = "SYNC"
           /\ wire' = Tail(wire)
           /\ \A f \in DOMAIN guest' : guest'[f] = Head(wire).payload[f] ]_vars

\* the guest applied a snapshot with the zombies of a wave in it, and has
\* not yet got the frame the host ran since
C22_Witness ==
  /\ guest # << >>
  /\ guest # createInitialState(playerCount)
  /\ guest # state
  /\ wire = << >>
  /\ waves = 1 /\ ticks = 1
  /\ entitiesOfType(guest, "ZOMBIE") # {}

\* C23: createInitialState(N), 1 <= N <= 8, gives the players p1..pN, each with
\* gold 100, currentPop 0, maxPop 5 and not defeated; N BASE entities, one of
\* each player, with hp = maxHp = 1000, at the owner's basePosition, no two on
\* the same anchor; one enemy base, enemy_base of owner enemy, with
\* hp = maxHp = 3000 + 1000 N; gameOver false and no winner.
startsRight(n, st) ==
  LET bases == entitiesOfType(st, "BASE")
      enemyBases == entitiesOfType(st, "ENEMY_BASE")
  IN  /\ DOMAIN st.players = { PlayerIds[i] : i \in 1..n }
      /\ \A p \in DOMAIN st.players :
           /\ st.players[p].gold = 100
           /\ st.players[p].currentPop = 0
           /\ st.players[p].maxPop = 5
           /\ st.players[p].defeated = FALSE
           /\ Cardinality({ k \in bases : st.entities[k].ownerId = p }) = 1
      /\ Cardinality(bases) = n
      /\ \A k \in bases :
           /\ st.entities[k].hp = 1000 /\ st.entities[k].maxHp = 1000
           /\ st.entities[k].ownerId \in DOMAIN st.players
           /\ << st.entities[k].x, st.entities[k].y >>
                = st.players[st.entities[k].ownerId].basePosition
           /\ \A j \in bases \ { k } :
                << st.entities[j].x, st.entities[j].y >>
                  # << st.entities[k].x, st.entities[k].y >>
      /\ Cardinality(enemyBases) = 1
      /\ \A k \in enemyBases :
           /\ st.entities[k].id = EnemyBaseId
           /\ st.entities[k].ownerId = "enemy"
           /\ st.entities[k].hp = 3000 + 1000 * n
           /\ st.entities[k].maxHp = 3000 + 1000 * n
      /\ st.gameOver = FALSE
      /\ st.winner = ""

C23_InitialState == startsRight(playerCount, state)

\* the largest session: eight player bases and the enemy base at 11000 hp
C23_Witness ==
  /\ playerCount = 8
  /\ query # << >>
  /\ Len(state.entities) = 9
  /\ state.entities[8].ownerId = "p8"
  /\ state.entities[9].hp = 11000

\* C24: an update that is called while gameOver is true changes nothing: no
\* entity (position, hp, cooldowns, path, target), no player, not the list of
\* entities, not gameOver or winner.
C24_UpdateFrozen ==
  [][ (ticks' = ticks + 1 /\ state.gameOver) => state' = state ]_vars

\* the first tick ended the game with zombies and soldiers left that had just
\* struck and are cooling down, and the next tick is due
C24_Witness ==
  /\ state.gameOver
  /\ ticks = 1 /\ ticks < MaxTicks /\ steps < MaxSteps
  /\ \E i \in entitiesOfType(state, "ZOMBIE") : state.entities[i].attackCooldown > 0
  /\ \E i \in entitiesOfType(state, "UNIT") :
       /\ state.entities[i].attackCooldown > 0
       /\ findLive(state.entities, state.entities[i].targetId) # 0

\* C25: an attack of a unit or zombie takes exactly the attacker's damage off
\* the hp of its target and sets the attacker's cooldown to 1.0 s; an entity
\* attacks once in a tick at most, and from one attack of an entity to its next
\* at least 1.0 s of simulated time passes (the deltaTime of the ticks after the
\* one up to and with the other).
strikesRight(es, since, trace, dt) ==
  \A i \in 1..(Len(trace) - 1) :
     LET hit == struckBy(trace, i)
     IN  /\ Cardinality(hit) <= 1
         /\ \A k \in hit :
              /\ es[i].type \in { "UNIT", "ZOMBIE" }
              /\ trace[i + 1][k].hp = trace[i][k].hp - es[i].damage
              /\ trace[i + 1][i].attackCooldown = 1 * Scale
              /\ since[es[i].id] + dt >= 1 * Scale

C25_AttackRate ==
  [][ (ticks' = ticks + 1 /\ sinceStrike # << >>)
        => \A dt \in DeltaTimes :
             state' = update(state, dt)
               => strikesRight(state.entities, sinceStrike, passOf(state, dt), dt) ]_vars

\* after two ticks of 1 s the four soldiers at the enemy base have struck it
\* in each of them: it is down from 120 hp to 40, and they cool down again
C25_Witness ==
  /\ ticks = 2
  /\ sinceStrike # << >>
  /\ \E k \in entitiesOfType(state, "ENEMY_BASE") : state.entities[k].hp = 40
  /\ Cardinality({ i \in entitiesOfType(state, "UNIT") :
                     /\ sinceStrike[state.entities[i].id] = 0
                     /\ state.entities[i].attackCooldown = 1 * Scale
                     /\ state.entities[i].targetId = EnemyBaseId }) = 4

\* C26: whenever a unit or zombie damages or moves toward a target in a tick,
\* that target is in the entity list with hp > 0 at that moment.  A targetId
\* whose entity was removed in an earlier tick, or lost its last hp to an entity
\* earlier in the pass of the same tick, counts as no target: that entity is
\* neither damaged nor pursued.
moved(before, after, i) == << after[i].x, after[i].y >> # << before[i].x, before[i].y >>

aimsAtLive(st, trace, dt) ==
  \A i \in 1..(Len(trace) - 1) :
     LET before == trace[i]
         after == trace[i + 1]
         aim == aimOf(before, i, dt, DOMAIN st.players,
                      buildBlockedTiles(st.entities, {}),
                      buildBlockedTiles(st.entities, {"ENEMY_BASE"}))
         lost == { k \in 1..Len(before) : before[k].hp <= 0 }
     IN  /\ aim # 0 => before[aim].hp > 0
         /\ struckBy(trace, i) \subseteq { aim } \ lost
         /\ moved(before, after, i) => aim # 0
         /\ (before[i].targetId # NoId /\ findLive(before, before[i].targetId) = 0 /\ aim # 0)
              => before[aim].id # before[i].targetId

C26_TargetIsLive ==
  [][ (ticks' = ticks + 1 /\ sinceStrike # << >>)
        => \A dt \in DeltaTimes :
             state' = update(state, dt) => aimsAtLive(state, passOf(state, dt), dt) ]_vars

\* both guards at the base of p1 were after zombie 11, which the first guard
\* felled before the second came to act: two ticks on the zombie is gone, the
\* second guard has walked off after another zombie, and the first guard, left
\* with the id of a removed entity, has taken a live target too
C26_Witness ==
  /\ ticks = 2 /\ sinceStrike # << >>
  /\ \A k \in 1..Len(state.entities) : state.entities[k].id # 11
  /\ \E a \in entitiesOfType(state, "UNIT"), b \in entitiesOfType(state, "UNIT"),
        z \in entitiesOfType(state, "ZOMBIE") :
       /\ state.entities[a].id = 25 /\ state.entities[b].id = 26
       /\ state.entities[a].targetId \notin { NoId, 11 }
       /\ state.entities[b].targetId = state.entities[z].id
       /\ state.entities[z].hp > 0
       /\ << state.entities[b].x, state.entities[b].y >>
            # << BASE_POSITIONS[1][1] + 60, BASE_POSITIONS[1][2] - 240 >>

\* C27: in a tick in which the distance of a unit or zombie to its target is
\* within range + effective target radius + buffer (walls count with
\* min(radius, 0.6)), the entity keeps its position, its velocity is zero and
\* its path is cleared; no entity both moves and attacks in a tick; and damage
\* is dealt only in a tick in which that distance condition holds.
withinReach(e, target) ==
  LET effectiveTargetRadius == IF target.type = "WALL" THEN Min(target.radius, 60)
                               ELSE target.radius
      reach == e.range + effectiveTargetRadius + ATTACK_RANGE_BUFFER
  IN  DistSq(e.x, e.y, target.x, target.y) <= reach * reach

standsToStrike(st, trace, dt) ==
  \A i \in 1..(Len(trace) - 1) :
     LET before == trace[i]
         after == trace[i + 1]
         aim == aimOf(before, i, dt, DOMAIN st.players,
                      buildBlockedTiles(st.entities, {}),
                      buildBlockedTiles(st.entities, {"ENEMY_BASE"}))
     IN  /\ ~(moved(before, after, i) /\ struckBy(trace, i) # {})
         /\ struckBy(trace, i) # {} => aim # 0 /\ withinReach(before[i], before[aim])
         /\ (aim # 0 /\ withinReach(before[i], before[aim]))
              => /\ ~moved(before, after, i)
                 /\ after[i].vx = 0 /\ after[i].vy = 0
                 /\ after[i].path = << >>

C27_StandsToStrike ==
  [][ ticks' = ticks + 1
        => \A dt \in DeltaTimes \cup ShortDeltaTimes :
             state' = update(state, dt) => standsToStrike(state, passOf(state, dt), dt) ]_vars

\* C28: whenever update changes the position of an entity, by following a
\* waypoint or on the straight way, the new position is valid terrain and not
\* blocked by a live wall, house, mine or base (the entity itself and, for a
\* zombie, the enemy base left aside), as the entities are at that moment; and
\* when the position it computed fails one of the two tests, the entity stays
\* where it is and gives up its path.
freeGround(es, i, x, y) ==
  /\ isValidTerrain(x, y)
  /\ ~isPositionBlocked(es, x, y, es[i].id,
                        IF es[i].type = "ZOMBIE" THEN {"ENEMY_BASE"} ELSE {})

stepsOnFreeGround(st, trace, dt) ==
  \A i \in 1..(Len(trace) - 1) :
     LET before == trace[i]
         after == trace[i + 1]
         tried == triedBy(before, i, dt, DOMAIN st.players,
                          buildBlockedTiles(st.entities, {}),
                          buildBlockedTiles(st.entities, {"ENEMY_BASE"}))
     IN  /\ moved(before, after, i)
              => /\ tried = << after[i].x, after[i].y >>
                 /\ freeGround(before, i, after[i].x, after[i].y)
         /\ (tried # << >> /\ ~freeGround(before, i, tried[1], tried[2]))
              => /\ ~moved(before, after, i)
                 /\ after[i].path = << >>

C28_StepsOnFreeGround ==
  [][ ticks' = ticks + 1
        => \A dt \in DeltaTimes \cup ShortDeltaTimes :
             state' = update(state, dt) => stepsOnFreeGround(state, passOf(state, dt), dt) ]_vars

\* the zombie walked a step in the first frame; in the second it let go of its
\* wall and found the way to the new house of p1 blocked by that house: it
\* stands where it stood, without path, velocity or target, and waits
C28_Witness ==
  /\ ticks = 2 /\ orders = 1
  /\ \E z \in entitiesOfType(state, "ZOMBIE"), h \in entitiesOfType(state, "HOUSE") :
       /\ state.entities[h].id = FirstGeneratedId + 5
       /\ << state.entities[z].x, state.entities[z].y >> \notin DriftStarts
       /\ state.entities[z].path = << >> /\ state.entities[z].pathIndex = NoId
       /\ state.entities[z].vx = 0 /\ state.entities[z].vy = 0
       /\ state.entities[z].targetId = NoId
       /\ state.entities[z].pathCooldown = PATH_RECALC_INTERVAL
       /\ withinReach(state.entities[z], state.entities[h])

\* C29: path planning is throttled per entity: two consecutive path
\* computations for a unit or zombie are at least 0.4 simulated seconds apart,
\* and a computation happens only when the entity has no path, its cursor is
\* past the end of the path, or its desired target differs from targetId.
plansOnlyInNeed(st, trace, dt) ==
  \A i \in 1..(Len(trace) - 1) :
     LET e == trace[i][i]
         desired == acquireTarget(trace[i], i, DOMAIN st.players)
     IN  plansIn(trace[i], i, dt, DOMAIN st.players)
           => \/ e.path = << >>
              \/ e.pathIndex # NoId /\ e.pathIndex >= Len(e.path)
              \/ e.targetId # trace[i][desired].id

PlansOnlyInNeed ==
  [][ (ticks' = ticks + 1 /\ sincePlan # << >>)
        => \A dt \in DeltaTimes \cup ShortDeltaTimes :
             state' = update(state, dt) => plansOnlyInNeed(state, passOf(state, dt), dt) ]_vars

C29_PlansThrottled ==
  /\ [](\A id \in DOMAIN sincePlan : sincePlan[id].gap >= PATH_RECALC_INTERVAL)
  /\ PlansOnlyInNeed

\* C29 as it holds: two consecutive plannings of an entity (each the findPath
\* calls of one tick) are at least 0.4 s apart unless pathCooldown was set to 0
\* between them, by the drop of a wall target out of reach or by a blocked step
\* of a zombie with a wall close by; and a planning happens only in the three
\* cases named.
C29_PlansThrottledUnlessReset ==
  /\ [](\A id \in DOMAIN sincePlan :
          sincePlan[id].gap >= PATH_RECALC_INTERVAL \/ sincePlan[id].hurried)
  /\ PlansOnlyInNeed

\* the zombie planned in the first frame and again in the second, 0.2 s later:
\* its step in the first frame was blocked next to a wall
C29_Witness ==
  /\ ticks = 2
  /\ \E z \in entitiesOfType(state, "ZOMBIE") :
       /\ sincePlan[state.entities[z].id].time = 0
       /\ sincePlan[state.entities[z].id].gap = 20
       /\ sincePlan[state.entities[z].id].hurried
       /\ state.entities[z].pathCooldown = PATH_RECALC_INTERVAL
       /\ state.entities[z].targetId = FirstGeneratedId

\* C30: when a zombie that is after a non-wall target plans a path and
\* findBlockingWall returns a wall, its target after the planning is a wall
\* exactly when there is no path to the primary target, or that path is more
\* than 1.25 times as long as the straight line to the primary target, or the
\* blocking wall is within 2.5 tiles of the zombie; otherwise the zombie keeps
\* the primary target and the path around the wall.
C30_BreaksWallOnlyToSaveWay ==
  \A i \in zombiesOf(state.entities) :
    LET es == state.entities
        t == acquireTarget(es, i, DOMAIN state.players)
        w == findBlockingWall(es, i, t)
        path == findPath(es[i].x, es[i].y, es[t].x, es[t].y,
                         buildBlockedTiles(es, { "ENEMY_BASE" }))
        plan == planned(es, i, t)
    IN  (t # 0 /\ es[t].type # "WALL" /\ w # 0)
          => /\ es[plan.t].type = "WALL" <=> diverts(es, i, t, w, path)
             /\ es[plan.t].type = "WALL" <=> plan.e.targetId # es[t].id
             /\ ~diverts(es, i, t, w, path)
                  => /\ plan.t = t
                     /\ plan.e.targetId = es[t].id
                     /\ plan.e.path = path /\ plan.e.pathIndex = 0

\* a tick made the zombie plan with a wall in its way, 3.5 tiles off: it is
\* after the base of p1 as before, on a path that ends on the tile of the base
\* and is at most 1.25 times as long as the straight line
C30_Witness ==
  /\ ticks = 1 /\ orders = 0
  /\ \E i \in zombiesOf(state.entities) :
       LET es == state.entities
           e == es[i]
           w == findBlockingWall(es, i, 1)
       IN  /\ es[1].type = "BASE" /\ es[1].hp > 0
           /\ w # 0
           /\ 2 * 2 * DistSq(e.x, e.y, es[w].x, es[w].y) > (5 * Scale) * (5 * Scale)
           /\ e.targetId = es[1].id
           /\ e.pathCooldown = PATH_RECALC_INTERVAL
           /\ e.path # << >>
           /\ e.path[Len(e.path)] = tileCenter(<< es[1].x \div Scale, es[1].y \div Scale >>)
           /\ 100 * getPathLength(e.path)
                <= 125 * ISqrt(DistSq(e.path[1][1], e.path[1][2], es[1].x, es[1].y))

\* ------------------------------------------------------------ C31
\* the owners and the excluded types findClosestTarget is asked with
OwnerSets == { { "enemy" }, { "p1" }, { "p1", "p2" }, { "p1", "p2", "p3", "p4" }, { } }

ExcludeSets == { { }, { "WALL" }, { "BASE", "ENEMY_BASE" } }

\* the entities findClosestTarget chooses among
candidates(es, targetOwners, excludeTypes) ==
  { k \in 1..Len(es) : /\ es[k].ownerId \in targetOwners
                       /\ es[k].hp > 0
                       /\ es[k].type \notin excludeTypes }

\* r is what the claim lets findClosestTarget return for source i
nearestOf(es, i, r, targetOwners, excludeTypes) ==
  LET cands == candidates(es, targetOwners, excludeTypes)
  IN  /\ r = 0 <=> cands = { }
      /\ r # 0 => /\ r \in cands
                  /\ \A j \in cands :
                       DistSq(es[i].x, es[i].y, es[j].x, es[j].y)
                         >= DistSq(es[i].x, es[i].y, es[r].x, es[r].y)

\* C31: findClosestTarget(source, owners, excludeTypes) returns a live entity
\* of the owners, of a type not excluded, than which no other such entity is
\* strictly closer to the source, and undefined exactly when there is no such
\* entity; update asks it with all player ids and WALL excluded for a zombie
\* (a live wall the zombie is locked on takes the place of what it returns),
\* and with the owner "enemy" for a unit.
C31_ClosestLiveCandidate ==
  LET es == state.entities
      allPlayerIds == DOMAIN state.players
  IN  \A i \in 1..Len(es) :
        /\ \A targetOwners \in OwnerSets, excludeTypes \in ExcludeSets :
             nearestOf(es, i, findClosestTarget(es, i, targetOwners, excludeTypes),
                       targetOwners, excludeTypes)
        /\ es[i].type = "UNIT"
             => nearestOf(es, i, acquireTarget(es, i, allPlayerIds), { "enemy" }, { })
        /\ es[i].type = "ZOMBIE"
             => LET t == acquireTarget(es, i, allPlayerIds)
                    locked == t # 0 /\ es[t].type = "WALL"
                IN  /\ t = 0 <=> candidates(es, allPlayerIds, { "WALL" }) = { }
                    /\ ~locked => nearestOf(es, i, t, allPlayerIds, { "WALL" })
                    /\ locked => es[t].id = es[i].targetId /\ es[t].hp > 0

\* after a tick of a session of two, the guard at the base of p1 is after the
\* zombie next to it, which is nearer than the enemy base that comes first in
\* the list, and the zombie at the base of p2 is after that base, which is
\* nearer than the base of p1 that comes first in the list
C31_Witness ==
  LET es == state.entities
  IN  /\ ticks >= 1 /\ playerCount = 2
      /\ \E g \in 1..Len(es), z \in 1..Len(es), b \in 1..Len(es) :
           /\ es[g].type = "UNIT" /\ es[z].type = "ZOMBIE" /\ es[b].type = "ENEMY_BASE"
           /\ b < z
           /\ findClosestTarget(es, g, { "enemy" }, { }) = z
           /\ es[g].targetId = es[z].id
           /\ DistSq(es[g].x, es[g].y, es[b].x, es[b].y)
                > DistSq(es[g].x, es[g].y, es[z].x, es[z].y)
      /\ \E z \in 1..Len(es) :
           /\ es[z].type = "ZOMBIE"
           /\ es[1].type = "BASE" /\ es[2].type = "BASE"
           /\ findClosestTarget(es, z, DOMAIN state.players, { "WALL" }) = 2
           /\ es[z].targetId = es[2].id

\* ------------------------------------------------------------ C32
\* st2 is st with one entity more and cost less gold for player p
paidAndAdded(st, st2, p, cost) ==
  /\ Len(st2.entities) = Len(st.entities) + 1
  /\ st2.players[p].gold = st.players[p].gold - cost
  /\ st2.gameOver = st.gameOver

\* what the handlers do for every caller and input while the game is over
servedWhenOver ==
  state.gameOver =>
    \A p \in DOMAIN state.players :
      LET player == state.players[p]
      IN  /\ \A t \in DOMAIN UNIT_TYPES, off \in ProbeOffsets :
               (~player.defeated /\ player.gold >= UNIT_TYPES[t].cost
                /\ player.currentPop < player.maxPop)
               => paidAndAdded(state, spawnUnit(state, p, t, off, nextId), p,
                               UNIT_TYPES[t].cost)
          /\ \A c \in ProbePoints :
               LET cx == tileCentreOf(c[1])
                   cy == tileCentreOf(c[2])
               IN  /\ ~buildRefused(p, cx, cy, houseCost, TRUE)
                        => paidAndAdded(state, buildHouse(state, p, c[1], c[2], nextId),
                                        p, houseCost)
                   /\ ~buildRefused(p, cx, cy, MINE_COST, TRUE)
                        => paidAndAdded(state, buildMine(state, p, c[1], c[2], nextId),
                                        p, MINE_COST)
                   /\ ~buildRefused(p, cx, cy, WALL_COST, FALSE)
                        => paidAndAdded(state, buildWall(state, p, c[1], c[2], nextId),
                                        p, WALL_COST)

\* C32: the command handlers do not look at gameOver: once gameOver is true, a
\* spawnUnit or build call of an undefeated player that meets the conditions of
\* the call still takes the gold and adds the entity, while a tick changes
\* nothing any more.
C32_CommandsServedAfterGameOver ==
  /\ [] servedWhenOver
  /\ [][ state.gameOver
           => /\ ticks' = ticks + 1 => state' = state
              /\ orders' = orders + 1
                   => \E p \in DOMAIN state.players :
                        /\ ~state.players[p].defeated
                        /\ state'.players[p].gold < state.players[p].gold
                        /\ Len(state'.entities) = Len(state.entities) + 1 ]_vars

\* the soldiers of p1 have brought the enemy base down in the only tick, and a
\* tank that p1 bought afterwards stands on its ring point, untouched by a tick
C32_Witness ==
  /\ state.gameOver /\ state.winner = "PLAYERS"
  /\ ticks = 1 /\ orders = 1
  /\ ~state.players["p1"].defeated
  /\ state.players["p1"].gold = 250 - UNIT_TYPES["TANK"].cost
  /\ LET unit == state.entities[Len(state.entities)]
     IN  /\ unit.type = "UNIT" /\ unit.unitType = "TANK" /\ unit.ownerId = "p1"
         /\ unit.id = FirstGeneratedId
         /\ unit.targetId = NoId
         /\ unit.pathCooldown = 0
         /\ unit.path = << >>
         /\ << unit.x - state.players["p1"].basePosition[1],
               unit.y - state.players["p1"].basePosition[2] >> \in RingOffsets

\* ------------------------------------------------------------ C33
\* the BASE entities of player p
basesOf(st, p) ==
  { i \in entitiesOfType(st, "BASE") : st.entities[i].ownerId = p }

\* C33: after every operation a player is defeated exactly when the list of
\* entities holds no BASE of that player; so when ZOMBIES is the winner every
\* player is defeated, and every spawnUnit and build call changes nothing.
C33_DefeatedIffBaseless ==
  /\ \A p \in DOMAIN state.players :
       state.players[p].defeated <=> basesOf(state, p) = { }
  /\ state.winner = "ZOMBIES"
       => /\ \A p \in DOMAIN state.players : state.players[p].defeated
          /\ \A p \in Callers :
               /\ \A t \in DOMAIN UNIT_TYPES, off \in ProbeOffsets :
                    spawnUnit(state, p, t, off, nextId) = state
               /\ \A c \in ProbePoints :
                    /\ buildHouse(state, p, c[1], c[2], nextId) = state
                    /\ buildMine(state, p, c[1], c[2], nextId) = state
                    /\ buildWall(state, p, c[1], c[2], nextId) = state

\* a session of two in which the base of p2 fell in the first tick and that of
\* p1 in the second: both are defeated, p1 with gold enough for every purchase and
\* room for a unit
C33_Witness ==
  /\ playerCount = 2 /\ ticks = 2
  /\ state.gameOver /\ state.winner = "ZOMBIES"
  /\ entitiesOfType(state, "BASE") = { }
  /\ \A p \in DOMAIN state.players : state.players[p].defeated
  /\ state.players["p1"].gold >= MINE_COST
  /\ state.players["p1"].currentPop < state.players["p1"].maxPop

\* ------------------------------------------------------------ C34
\* the HOUSE entities of player p
housesOf(st, p) ==
  { i \in entitiesOfType(st, "HOUSE") : st.entities[i].ownerId = p }

\* C34: in every reachable state currentPop <= maxPop for every player, also
\* after houses of the player have been destroyed: no operation lowers maxPop,
\* and the tick that removes a house leaves maxPop as it is.
C34_PopWithinMaxPop ==
  /\ [] (\A p \in DOMAIN state.players :
           state.players[p].currentPop <= state.players[p].maxPop)
  /\ [][ \A p \in DOMAIN state.players :
           /\ state'.players[p].maxPop >= state.players[p].maxPop
           /\ ticks' = ticks + 1 => state'.players[p].maxPop = state.players[p].maxPop ]_vars

\* the house of p1 has been destroyed in a tick that left the six soldiers
\* alive: maxPop is 10 as the house made it, and more than 5 units stand
C34_Witness ==
  /\ ticks >= 1
  /\ housesOf(state, "p1") = { }
  /\ state.players["p1"].maxPop = 10
  /\ state.players["p1"].currentPop > 5
  /\ Cardinality(unitsOf(state, "p1")) = state.players["p1"].currentPop

\* ------------------------------------------------------------ C35
\* the owners whose entities an entity of the given type may be after
foesOf(type, allPlayerIds) ==
  IF type = "ZOMBIE" THEN allPlayerIds
  ELSE IF type = "UNIT" THEN { "enemy" }
  ELSE { }

\* in the pass of a tick every callback takes hp off entities of the other
\* side only, and leaves its entity after an entity of the other side
noFriendlyFire(st, trace) ==
  \A i \in 1..(Len(trace) - 1) :
    LET foes == foesOf(st.entities[i].type, DOMAIN st.players)
        after == trace[i + 1]
    IN  /\ \A k \in struckBy(trace, i) :
             /\ after[k].hp < trace[i][k].hp
             /\ after[k].ownerId \in foes
             /\ st.entities[i].type = "UNIT" => after[k].type \in { "ZOMBIE", "ENEMY_BASE" }
        /\ \A k \in 1..Len(after) :
             (after[i].targetId # NoId /\ after[k].id = after[i].targetId)
               => after[k].ownerId \in foes

\* C35: there is no friendly fire: in every tick a zombie takes hp only off
\* entities owned by a player, and a unit only off entities owned by "enemy"
\* (zombies, the enemy base); a unit is never after a wall or another entity of
\* a player, and never damages one.
C35_NoFriendlyFire ==
  [][ ticks' = ticks + 1
        => \A dt \in DeltaTimes :
             state' = update(state, dt) => noFriendlyFire(state, passOf(state, dt)) ]_vars

\* p1 has built a wall on tile (12, 52), next to the zombie at its base and to
\* the guard of p2; in the tick after, the guard has struck and killed the
\* zombie, the bases have been struck by the zombies, and the wall is untouched
C35_Witness ==
  /\ playerCount = 2 /\ ticks = 1 /\ orders = 1
  /\ \E w \in entitiesOfType(state, "WALL") :
       /\ state.entities[w].x = 1250 /\ state.entities[w].y = 5250
       /\ state.entities[w].hp = state.entities[w].maxHp
  /\ \E g \in entitiesOfType(state, "UNIT") :
       /\ state.entities[g].id = 25
       /\ state.entities[g].attackCooldown = 1 * Scale
       /\ state.entities[g].hp = state.entities[g].maxHp
  /\ \A z \in entitiesOfType(state, "ZOMBIE") : state.entities[z].id # 11
  /\ \E b \in entitiesOfType(state, "BASE") :
       state.entities[b].hp < 1000 /\ state.entities[b].lastAttackerId = "enemy"

\* ------------------------------------------------------------ C36
\* the callbacks of the pass whose entity was alive when the tick began and had
\* been brought to hp <= 0 by an earlier callback when its turn came
slainBeforeTurn(st, trace) ==
  { i \in 1..(Len(trace) - 1) : st.entities[i].hp > 0 /\ trace[i][i].hp <= 0 }

\* C36: an entity whose hp an entity earlier in the order of a tick has brought
\* to 0 or less neither moves nor deals damage when its own turn comes in that
\* tick.
C36_SlainDoNotAct ==
  [][ ticks' = ticks + 1
        => \A dt \in DeltaTimes :
             state' = update(state, dt)
               => LET trace == passOf(state, dt)
                  IN  \A i \in slainBeforeTurn(state, trace) :
                        /\ struckBy(trace, i) = { }
                        /\ trace[i + 1][i].x = trace[i][i].x
                        /\ trace[i + 1][i].y = trace[i][i].y ]_vars

\* ------------------------------------------------------------ C37
\* the HOUSE, MINE and WALL entities
buildingsOf(st) ==
  { i \in 1..Len(st.entities) : st.entities[i].type \in { "HOUSE", "MINE", "WALL" } }

\* the points a build command is repeated at: the centre of a tile, its near
\* corner and a point close to its far corner
pointsOnTile(cx, cy) ==
  { << cx, cy >>, << cx - Scale \div 2, cy - Scale \div 2 >>,
    << cx + Scale \div 2 - 1, cy + Scale \div 2 - 1 >> }

\* every building stands on the centre of a tile that it shares with no other
\* building, and a build command for its tile changes nothing
buildingsInPlace ==
  \A i \in buildingsOf(state) :
    LET b == state.entities[i]
    IN  /\ b.x % Scale = Scale \div 2
        /\ b.y % Scale = Scale \div 2
        /\ \A j \in buildingsOf(state) \ { i } :
             << state.entities[j].x \div Scale, state.entities[j].y \div Scale >>
               # << b.x \div Scale, b.y \div Scale >>
        /\ \A p \in Callers, c \in pointsOnTile(b.x, b.y) :
             /\ buildHouse(state, p, c[1], c[2], nextId) = state
             /\ buildMine(state, p, c[1], c[2], nextId) = state
             /\ buildWall(state, p, c[1], c[2], nextId) = state

\* C37: after any sequence of build commands and ticks every HOUSE, MINE and
\* WALL stands exactly on the centre of a tile (both coordinates n + 0.5) and
\* never moves, no two of them stand on the same tile, and a build command
\* that succeeded changes nothing when it is repeated with the same coordinates
\* while the building stands.
C37_BuildingsOnTileCentres ==
  /\ [] buildingsInPlace
  /\ [][ \A i \in buildingsOf(state), j \in buildingsOf(state') :
           state'.entities[j].id = state.entities[i].id
             => /\ state'.entities[j].x = state.entities[i].x
                /\ state'.entities[j].y = state.entities[i].y ]_vars

\* p1 has built a house on tile (16, 49) beside the three walls and the house
\* that stood before, and a tick has moved the zombie since
C37_Witness ==
  /\ orders = 1 /\ ticks >= 1
  /\ Cardinality(buildingsOf(state)) = 5
  /\ \E i \in buildingsOf(state) :
       /\ state.entities[i].id = FirstGeneratedId + 5
       /\ state.entities[i].type = "HOUSE"
       /\ state.entities[i].x = 1650 /\ state.entities[i].y = 4950
  /\ state.players["p1"].gold >= houseCost
  /\ \E z \in entitiesOfType(state, "ZOMBIE") :
       << state.entities[z].x, state.entities[z].y >> \notin DriftStarts

\* ------------------------------------------------------------ C38
\* the player ids of the guests in the lobby
lobbyGuests(a) == { a.lobbyPlayers[k] : k \in 2..Len(a.lobbyPlayers) }

\* C38: when the host has started a multiplayer game, the player id that
\* assignPlayerToPeer gave to a guest in the lobby (p2, p3, ...) is a key of
\* state.players as createInitialState(lobbyPlayers.length) made it, whatever
\* the order of the connections, disconnections and playerInfo messages before
\* the start was.
C38_LobbyIdsArePlayers ==
  (app # << >> /\ app.isPlaying)
    => \A playerId \in lobbyGuests(app) : playerId \in DOMAIN state.players

\* ------------------------------------------------------------ C39
\* C39: when the game of the host comes to gameOver = true while a guest is
\* connected, the guest receives a SYNC snapshot in which gameOver is true in
\* the end: the sync interval of the host is not stopped before it has sent
\* one, however the sync interval and the UI poll interval that ends play
\* interleave.
C39_GuestLearnsGameOver ==
  (app # << >> /\ app.connections # { } /\ state.gameOver) ~> guest.gameOver

====
